---- MODULE Spec2Model ----
(***************************************************************************)
(* The action processor (reducer) of the dungeon game, with the character  *)
(* model, the combat engine and the world data it works on.                *)
(*                                                                         *)
(* processAction(state, action) is a pure function of the game state and   *)
(* the dice.  A handler is modelled as an operator from a GameState record *)
(* to the list of the GameState records it can return, one per outcome of  *)
(* the dice it rolls (a handler that rolls no dice returns one record).    *)
(* The variables are the fields of GameState.                              *)
(*                                                                         *)
(* Conventions:                                                            *)
(*  - an optional field (npc.stats, npc.shop, option.nextNodeId, ...) is a *)
(*    record field that is present or absent; null is Null;                *)
(*  - weights are in tenths of a pound (0.5 lbs is 5) and the shop         *)
(*    multipliers in tenths (1.5 is 15), so that all arithmetic is on      *)
(*    integers;                                                            *)
(*  - names, descriptions and message texts are left out: a log entry is   *)
(*    its type and a tag naming the message template;                      *)
(*  - timestamp and the log entries' ids (Date.now(), nanoid()) are left   *)
(*    out.                                                                 *)
(***************************************************************************)
EXTENDS Integers, Sequences, FiniteSets, TLC

VARIABLES character, currentLocationId, locations, npcs, quests, combat,
          activeDialogue, gameLog,   \* the fields of GameState
          lastAction,                \* the action of the last call
          calls                      \* the number of calls made

vars == <<character, currentLocationId, locations, npcs, quests, combat,
          activeDialogue, gameLog, lastAction, calls>>

----------------------------------------------------------------------------
(* Generic helpers                                                         *)

Null == <<>>

\* undefined, where the code expects a string
Undefined == "undefined"

Max(a, b) == IF a >= b THEN a ELSE b

Min(a, b) == IF a <= b THEN a ELSE b

\* Math.floor(a / b) for b > 0
FloorDiv(a, b) == a \div b

\* A price rounded down where the shop rounds up
CeilDivRoundingDown(a, b) == a \div b

\* Math.ceil(a / b) for b > 0
CeilDiv(a, b) == -((-a) \div b)

Has(r, f) == f \in DOMAIN r

Range(s) == {s[i] : i \in 1..Len(s)}

\* Array.prototype.findIndex, 1-based; 0 when there is none (-1 in the code)
FindIndex(s, Test(_)) ==
    IF \E i \in 1..Len(s) : Test(s[i])
    THEN CHOOSE i \in 1..Len(s) : Test(s[i]) /\ \A j \in 1..(i-1) : ~Test(s[j])
    ELSE 0

\* copy.splice(index, 1)
RemoveAt(s, i) == SubSeq(s, 1, i-1) \o SubSeq(s, i+1, Len(s))

\* The elements of a finite set, listed
RECURSIVE SetToSeq(_)
SetToSeq(S) ==
    IF S = {} THEN <<>>
    ELSE LET x == CHOOSE y \in S : TRUE IN <<x>> \o SetToSeq(S \ {x})

\* The concatenation of a list of lists
RECURSIVE Flatten(_)
Flatten(ss) ==
    IF Len(ss) = 0 THEN <<>> ELSE Head(ss) \o Flatten(Tail(ss))

\* The outcomes of Then(x), for every x of the set S of dice outcomes
ForEach(S, Then(_)) ==
    LET q == SetToSeq(S) IN Flatten([i \in 1..Len(q) |-> Then(q[i])])

----------------------------------------------------------------------------
(* Weights                                                                 *)

\* A weight carried is a JavaScript number, an IEEE 754 double, of a tenth
\* of a pound or more.  The double w, which is a multiple of 2^-56, is held as
\* the integer tenths * Grain + error, where tenths is the nearest whole
\* number of tenths of a pound and error is w - tenths / 10, counted in
\* units of 2^-56 / 10: sums, differences and comparisons of doubles are those
\* of the integers, as long as the errors stay below Grain / 2.
Grain == 262144

\* The greatest binade of a weight: it is below 2^(MaxBinade + 1) pounds
MaxBinade == 8

\* The binade of the positive weight held as magnitude: the e with
\* 2^e <= weight < 2^(e+1), which is -4 at least
Binade[magnitude \in Nat] ==
    LET tenths == (magnitude + Grain \div 2) \div Grain
        error == magnitude - tenths * Grain
        AtLeast(e) == \/ 16 * tenths > 10 * 2^(e + 4)
                      \/ 16 * tenths = 10 * 2^(e + 4) /\ error >= 0
    IN  CHOOSE e \in -4..MaxBinade : AtLeast(e) /\ ~AtLeast(e + 1)

\* The exact value held as magnitude, of the binade e, rounded to the nearest
\* double, ties to the even mantissa.  In the binade [2^e, 2^(e+1)) doubles
\* are 2^(e-52) apart, which is 10 * 2^(e+4) units.
RoundIn[pair \in Nat \X Int] ==
    LET magnitude == pair[1]
        e == pair[2]
        tenths == (magnitude + Grain \div 2) \div Grain
        error == magnitude - tenths * Grain
        ulp == 10 * 2^(e + 4)
        \* 2^(52-e) modulo 20, and with it the exact value modulo two ulps
        power == <<4, 8, 16, 12>>[((50 - e) % 4) + 1]
        twice == (2^(e + 4) * ((tenths * power) % 20) + error) % (2 * ulp)
        rest == twice % ulp
    IN  IF 2 * rest < ulp \/ (2 * rest = ulp /\ twice < ulp)
        THEN magnitude - rest
        ELSE magnitude - rest + ulp

\* The exact sum or difference n rounded to the nearest double: a whole number
\* of half pounds is a double itself, and so is every multiple of 2^-56 below
\* 2^-4
Rounding[n \in Int] ==
    LET magnitude == IF n < 0 THEN -n ELSE n
    IN  IF n % (5 * Grain) = 0 \/ magnitude < Grain \div 2 THEN n
        ELSE IF n < 0 THEN -RoundIn[<<magnitude, Binade[magnitude]>>]
        ELSE RoundIn[<<magnitude, Binade[magnitude]>>]

RoundToDouble(n) == Rounding[n]

\* The number literal of so many tenths of a pound: 0.2 for 2, 3 for 30
Pounds(tenths) == RoundToDouble(tenths * Grain)

\* a + b and a - b of two numbers
Plus(a, b) == RoundToDouble(a + b)

Minus(a, b) == RoundToDouble(a - b)

\* items.reduce((total, item) => total + item.weight, 0)
RECURSIVE SumWeights(_)
SumWeights(items) ==
    IF items = <<>> THEN 0
    ELSE Plus(SumWeights(SubSeq(items, 1, Len(items) - 1)),
              Pounds(items[Len(items)].weight))

----------------------------------------------------------------------------
(* Dice                                                                    *)

\* rollDice(sides): the set of values Math.floor(Math.random() * sides) + 1
rollDice(sides) == 1..sides

getAbilityModifier(score) == FloorDiv(score - 10, 2)

----------------------------------------------------------------------------
(* World data                                                              *)

\* An item, its weight written in tenths of a pound as in the source: 2 for
\* the literal 0.2, which Pounds(2) is the number of
Item(id, weight, value, type, usable) ==
    [id |-> id, weight |-> weight, value |-> value, type |-> type, usable |-> usable]

\* a dialogue option that carries only its text
TextOnly == <<>>

Node(id, options) == [id |-> id, options |-> options]

\* CLASSES: hit die, starting gold and starting equipment of each class
CLASSES ==
    "fighter" :>
      [name |-> "Fighter", hitDie |-> 10, startingGold |-> 50,
       startingEquipment |-> <<
         Item("fighter-sword", 30, 15, "weapon", FALSE),
         Item("fighter-shield", 60, 10, "armor", FALSE),
         Item("fighter-chainmail", 550, 75, "armor", FALSE),
         Item("fighter-potion", 5, 50, "potion", TRUE)>>] @@
    "wizard" :>
      [name |-> "Wizard", hitDie |-> 6, startingGold |-> 30,
       startingEquipment |-> <<
         Item("wizard-staff", 40, 2, "weapon", FALSE),
         Item("wizard-spellbook", 30, 50, "quest", FALSE),
         Item("wizard-robes", 40, 10, "armor", FALSE),
         Item("wizard-potion", 5, 40, "potion", TRUE)>>] @@
    "rogue" :>
      [name |-> "Rogue", hitDie |-> 8, startingGold |-> 40,
       startingEquipment |-> <<
         Item("rogue-dagger", 10, 2, "weapon", FALSE),
         Item("rogue-shortbow", 20, 25, "weapon", FALSE),
         Item("rogue-leather", 100, 10, "armor", FALSE),
         Item("rogue-lockpicks", 10, 25, "misc", FALSE),
         Item("rogue-potion", 5, 50, "potion", TRUE)>>] @@
    "cleric" :>
      [name |-> "Cleric", hitDie |-> 8, startingGold |-> 35,
       startingEquipment |-> <<
         Item("cleric-mace", 40, 5, "weapon", FALSE),
         Item("cleric-shield", 60, 10, "armor", FALSE),
         Item("cleric-chainmail", 550, 75, "armor", FALSE),
         Item("cleric-symbol", 5, 5, "quest", FALSE),
         Item("cleric-potion", 5, 50, "potion", TRUE)>>] @@
    "ranger" :>
      [name |-> "Ranger", hitDie |-> 10, startingGold |-> 45,
       startingEquipment |-> <<
         Item("ranger-longbow", 20, 50, "weapon", FALSE),
         Item("ranger-shortsword", 20, 10, "weapon", FALSE),
         Item("ranger-leather", 100, 10, "armor", FALSE),
         Item("ranger-arrows", 10, 1, "misc", FALSE),
         Item("ranger-potion", 5, 50, "potion", TRUE)>>] @@
    "paladin" :>
      [name |-> "Paladin", hitDie |-> 10, startingGold |-> 40,
       startingEquipment |-> <<
         Item("paladin-longsword", 30, 15, "weapon", FALSE),
         Item("paladin-shield", 60, 15, "armor", FALSE),
         Item("paladin-chainmail", 550, 75, "armor", FALSE),
         Item("paladin-symbol", 5, 5, "quest", FALSE),
         Item("paladin-potion", 5, 50, "potion", TRUE)>>]

\* LOCATIONS (locations.ts lines 10-203), visited as initializeLocations resets it
LOCATIONS ==
    "village-square" :>
      [id |-> "village-square",
       connections |-> ("north" :> "town-hall" @@ "east" :> "village-shop" @@ "south" :> "forest-path" @@ "west" :> "village-tavern"),
       npcs |-> <<"village-guard", "merchant">>,
       items |-> <<>>,
       visited |-> FALSE] @@
    "town-hall" :>
      [id |-> "town-hall",
       connections |-> ("south" :> "village-square"),
       npcs |-> <<"mayor", "town-clerk">>,
       items |-> <<>>,
       visited |-> FALSE] @@
    "village-shop" :>
      [id |-> "village-shop",
       connections |-> ("west" :> "village-square"),
       npcs |-> <<"shopkeeper">>,
       items |-> <<>>,
       visited |-> FALSE] @@
    "village-tavern" :>
      [id |-> "village-tavern",
       connections |-> ("east" :> "village-square" @@ "up" :> "tavern-rooms"),
       npcs |-> <<"bartender", "mysterious-stranger">>,
       items |-> <<>>,
       visited |-> FALSE] @@
    "tavern-rooms" :>
      [id |-> "tavern-rooms",
       connections |-> ("down" :> "village-tavern"),
       npcs |-> <<>>,
       items |-> <<>>,
       visited |-> FALSE] @@
    "forest-path" :>
      [id |-> "forest-path",
       connections |-> ("north" :> "village-square" @@ "south" :> "deep-forest" @@ "east" :> "forest-clearing"),
       npcs |-> <<>>,
       items |-> <<Item("forest-stick", 20, 1, "misc", FALSE)>>,
       visited |-> FALSE] @@
    "forest-clearing" :>
      [id |-> "forest-clearing",
       connections |-> ("west" :> "forest-path"),
       npcs |-> <<"hermit">>,
       items |-> <<>>,
       visited |-> FALSE] @@
    "deep-forest" :>
      [id |-> "deep-forest",
       connections |-> ("north" :> "forest-path" @@ "south" :> "ancient-ruins-entrance"),
       npcs |-> <<>>,
       items |-> <<>>,
       visited |-> FALSE] @@
    "ancient-ruins-entrance" :>
      [id |-> "ancient-ruins-entrance",
       connections |-> ("north" :> "deep-forest" @@ "down" :> "ruins-dungeon"),
       npcs |-> <<"ruins-guardian">>,
       items |-> <<Item("ancient-key", 2, 50, "quest", FALSE)>>,
       visited |-> FALSE] @@
    "ruins-dungeon" :>
      [id |-> "ruins-dungeon",
       connections |-> ("up" :> "ancient-ruins-entrance" @@ "east" :> "dungeon-treasury" @@ "south" :> "dungeon-depths"),
       npcs |-> <<"skeleton-warrior">>,
       items |-> <<>>,
       visited |-> FALSE] @@
    "dungeon-treasury" :>
      [id |-> "dungeon-treasury",
       connections |-> ("west" :> "ruins-dungeon"),
       npcs |-> <<>>,
       items |-> <<Item("gold-coins", 10, 100, "treasure", FALSE), Item("magic-amulet", 1, 250, "treasure", TRUE)>>,
       visited |-> FALSE] @@
    "dungeon-depths" :>
      [id |-> "dungeon-depths",
       connections |-> ("north" :> "ruins-dungeon"),
       npcs |-> <<"dungeon-boss">>,
       items |-> <<>>,
       visited |-> FALSE]

\* village-guard (npcs.ts lines 33-92)
villageGuard ==
    [id |-> "village-guard",
     hostile |-> FALSE,
     dialogue |-> <<
        Node("greeting", <<
            [nextNodeId |-> "passing-through"],
            [nextNodeId |-> "trouble"],
            TextOnly>>),
        Node("passing-through", <<
            [nextNodeId |-> "trouble"],
            TextOnly>>),
        Node("trouble", <<
            [nextNodeId |-> "mayor-suggestion"],
            TextOnly>>),
        Node("mayor-suggestion", <<
            TextOnly>>)>>]

\* merchant (npcs.ts lines 97-156)
merchant ==
    [id |-> "merchant",
     hostile |-> FALSE,
     dialogue |-> <<
        Node("greeting", <<
            [nextNodeId |-> "shop"],
            [nextNodeId |-> "village-info"],
            TextOnly>>),
        Node("shop", <<
            [nextNodeId |-> "village-info"],
            TextOnly>>),
        Node("village-info", <<
            [nextNodeId |-> "creatures"],
            TextOnly>>),
        Node("creatures", <<
            TextOnly>>)>>]

\* mayor (npcs.ts lines 161-295)
mayor ==
    [id |-> "mayor",
     hostile |-> FALSE,
     dialogue |-> <<
        Node("greeting", <<
            [nextNodeId |-> "troubles"],
            [nextNodeId |-> "help"],
            [nextNodeId |-> "declined"]>>),
        Node("troubles", <<
            [nextNodeId |-> "bandit-quest"],
            [nextNodeId |-> "ruins-info"],
            TextOnly>>),
        Node("help", <<
            [nextNodeId |-> "quest-accepted", action |-> "acceptQuest"],
            [nextNodeId |-> "ruins-info"],
            TextOnly>>),
        Node("declined", <<
            TextOnly>>),
        Node("ruins-info", <<
            [nextNodeId |-> "reward"],
            TextOnly>>),
        Node("reward", <<
            [nextNodeId |-> "quest-accepted"],
            TextOnly>>),
        Node("quest-accepted", <<
            TextOnly>>),
        Node("bandit-quest", <<
            [nextNodeId |-> "bandit-accepted"],
            [nextNodeId |-> "troubles"]>>),
        Node("bandit-accepted", <<
            TextOnly>>)>>]

\* town-clerk (npcs.ts lines 300-387)
townClerk ==
    [id |-> "town-clerk",
     hostile |-> FALSE,
     dialogue |-> <<
        Node("greeting", <<
            [nextNodeId |-> "history"],
            [nextNodeId |-> "records"],
            TextOnly>>),
        Node("history", <<
            [nextNodeId |-> "ruins-history"],
            TextOnly>>),
        Node("ruins-history", <<
            [nextNodeId |-> "recent-changes"],
            TextOnly>>),
        Node("recent-changes", <<
            TextOnly>>),
        Node("records", <<
            [nextNodeId |-> "map"],
            TextOnly>>),
        Node("map", <<
            TextOnly>>)>>]

\* shopkeeper (npcs.ts lines 392-529)
shopkeeper ==
    [id |-> "shopkeeper",
     hostile |-> FALSE,
     shop |-> [items |-> <<
        Item("shop-healing-potion", 5, 50, "potion", TRUE),
        Item("shop-longsword", 30, 15, "weapon", FALSE),
        Item("shop-leather-armor", 100, 10, "armor", FALSE),
        Item("shop-shield", 60, 10, "armor", FALSE),
        Item("shop-torch", 10, 1, "misc", FALSE),
        Item("shop-rope", 50, 1, "misc", FALSE)>>,
      buyMultiplier |-> 15, sellMultiplier |-> 5],
     dialogue |-> <<
        Node("greeting", <<
            [nextNodeId |-> "shop"],
            [nextNodeId |-> "sell"],
            TextOnly>>),
        Node("shop", <<
            [action |-> "listForSale"],
            TextOnly>>),
        Node("sell", <<
            [action |-> "listSellable"],
            TextOnly>>)>>]

\* bartender (npcs.ts lines 534-618)
bartender ==
    [id |-> "bartender",
     hostile |-> FALSE,
     dialogue |-> <<
        Node("greeting", <<
            [nextNodeId |-> "ale"],
            [nextNodeId |-> "rumors"],
            [nextNodeId |-> "room"],
            TextOnly>>),
        Node("ale", <<
            [nextNodeId |-> "rumors"],
            TextOnly>>),
        Node("rumors", <<
            [nextNodeId |-> "more-rumors"],
            TextOnly>>),
        Node("more-rumors", <<
            TextOnly>>),
        Node("room", <<
            [nextNodeId |-> "room-rented"],
            TextOnly>>),
        Node("room-rented", <<
            TextOnly>>)>>]

\* mysterious-stranger (npcs.ts lines 623-758)
mysteriousStranger ==
    [id |-> "mysterious-stranger",
     hostile |-> FALSE,
     dialogue |-> <<
        Node("greeting", <<
            [nextNodeId |-> "identity"],
            [nextNodeId |-> "both"],
            [nextNodeId |-> "rude"]>>),
        Node("identity", <<
            [nextNodeId |-> "ruins-info"],
            TextOnly>>),
        Node("both", <<
            [nextNodeId |-> "hint"],
            [nextNodeId |-> "catch"]>>),
        Node("rude", <<
            [nextNodeId |-> "ruins-info"],
            TextOnly>>),
        Node("ruins-info", <<
            [nextNodeId |-> "guardian"],
            [nextNodeId |-> "knowledge"]>>),
        Node("guardian", <<
            TextOnly>>),
        Node("knowledge", <<
            TextOnly>>),
        Node("hint", <<
            [nextNodeId |-> "helping"],
            TextOnly>>),
        Node("catch", <<
            TextOnly>>),
        Node("helping", <<
            TextOnly>>)>>]

\* hermit (npcs.ts lines 763-868)
hermit ==
    [id |-> "hermit",
     hostile |-> FALSE,
     dialogue |-> <<
        Node("greeting", <<
            [nextNodeId |-> "exploring"],
            [nextNodeId |-> "healer"],
            [nextNodeId |-> "ruins"]>>),
        Node("exploring", <<
            [nextNodeId |-> "help"],
            TextOnly>>),
        Node("healer", <<
            [nextNodeId |-> "healing"],
            [nextNodeId |-> "ruins"],
            TextOnly>>),
        Node("healing", <<
            TextOnly>>),
        Node("ruins", <<
            [nextNodeId |-> "blessing"],
            TextOnly>>),
        Node("blessing", <<
            TextOnly>>),
        Node("help", <<
            [nextNodeId |-> "healing"],
            TextOnly>>)>>]

\* ruins-guardian (npcs.ts lines 873-954)
ruinsGuardian ==
    [id |-> "ruins-guardian",
     hostile |-> FALSE,
     dialogue |-> <<
        Node("greeting", <<
            [nextNodeId |-> "riddle"],
            [nextNodeId |-> "refuse"],
            TextOnly>>),
        Node("riddle", <<
            [nextNodeId |-> "correct"],
            [nextNodeId |-> "wrong"],
            TextOnly>>),
        Node("correct", <<
            TextOnly>>),
        Node("wrong", <<
            [nextNodeId |-> "riddle"],
            TextOnly>>),
        Node("refuse", <<
            [nextNodeId |-> "riddle"],
            TextOnly>>)>>]

\* skeleton-warrior (npcs.ts lines 959-977)
skeletonWarrior ==
    [id |-> "skeleton-warrior",
     hostile |-> TRUE,
     stats |-> [hitPoints |-> 20, armorClass |-> 13, attackBonus |-> 3,
                damage |-> [numDice |-> 1, dieSize |-> 8, modifier |-> 1]],
     dialogue |-> <<
        Node("combat", <<>>)>>]

\* dungeon-boss (npcs.ts lines 982-1015)
dungeonBoss ==
    [id |-> "dungeon-boss",
     hostile |-> TRUE,
     stats |-> [hitPoints |-> 50, armorClass |-> 16, attackBonus |-> 6,
                damage |-> [numDice |-> 2, dieSize |-> 8, modifier |-> 3]],
     dialogue |-> <<
        Node("encounter", <<
            [nextNodeId |-> "combat"],
            [nextNodeId |-> "plea"]>>),
        Node("plea", <<>>),
        Node("combat", <<>>)>>]

\* NPCS: all NPCs by id
NPCS ==
    "village-guard" :> villageGuard @@
    "merchant" :> merchant @@
    "mayor" :> mayor @@
    "town-clerk" :> townClerk @@
    "shopkeeper" :> shopkeeper @@
    "bartender" :> bartender @@
    "mysterious-stranger" :> mysteriousStranger @@
    "hermit" :> hermit @@
    "ruins-guardian" :> ruinsGuardian @@
    "skeleton-warrior" :> skeletonWarrior @@
    "dungeon-boss" :> dungeonBoss

\* getDialogueNode: the first node with the id, Null when there is none
getDialogueNode(npc, nodeId) ==
    LET i == FindIndex(npc.dialogue, LAMBDA node : node.id = nodeId)
    IN  IF i = 0 THEN Null ELSE npc.dialogue[i]

\* getStartingDialogue: the first node named greeting, encounter or combat
getStartingDialogue(npc) ==
    LET i == FindIndex(npc.dialogue,
                 LAMBDA node : node.id \in {"greeting", "encounter", "combat"})
    IN  IF i = 0 THEN Null ELSE npc.dialogue[i]

isHostile(npc) == npc.hostile

\* initializeNPCs / initializeLocations: per-game copies of the tables
initializeNPCs == NPCS

initializeLocations == LOCATIONS

\* getConnectedLocation: Undefined when the direction is not mapped
getConnectedLocation(location, direction) ==
    IF direction \in DOMAIN location.connections
    THEN location.connections[direction] ELSE Undefined

getAvailableDirections(location) == DOMAIN location.connections

----------------------------------------------------------------------------
(* Character model (character.ts)                                          *)

\* className.toLowerCase(), on the class names and class keys
toLowerCase(className) ==
    CASE className \in {"Fighter", "fighter"} -> "fighter"
      [] className \in {"Wizard", "wizard"} -> "wizard"
      [] className \in {"Rogue", "rogue"} -> "rogue"
      [] className \in {"Cleric", "cleric"} -> "cleric"
      [] className \in {"Ranger", "ranger"} -> "ranger"
      [] className \in {"Paladin", "paladin"} -> "paladin"
      [] OTHER -> className

\* getClass: the class record, Null for an unknown class
getClass(className) ==
    IF toLowerCase(className) \in DOMAIN CLASSES
    THEN CLASSES[toLowerCase(className)] ELSE Null

Abilities ==
    {"strength", "dexterity", "constitution", "intelligence", "wisdom", "charisma"}

calculateAbilityModifiers(scores) ==
    [a \in Abilities |-> getAbilityModifier(scores[a])]

calculateMaxHitPoints(hitDie, constitutionModifier) ==
    Max(1, hitDie + constitutionModifier)

calculateArmorClass(dexterityModifier) == 10 + dexterityModifier

\* The id nanoid() gives the character: a random string, no NPC's id
PlayerId == "player"

\* createCharacter, for a known class, with the ability scores given
createCharacter(className, abilityScores) ==
    LET characterClass == getClass(className)
        modifiers == calculateAbilityModifiers(abilityScores)
        maxHitPoints == calculateMaxHitPoints(characterClass.hitDie, modifiers.constitution)
    IN  [id |-> PlayerId,
         class |-> characterClass.name,
         level |-> 1,
         experience |-> 0,
         hitPoints |-> [current |-> maxHitPoints, max |-> maxHitPoints],
         abilityScores |-> abilityScores,
         abilityModifiers |-> modifiers,
         inventory |-> [items |-> characterClass.startingEquipment,
                        maxWeight |-> Pounds(1500),
                        currentWeight |-> SumWeights(characterClass.startingEquipment)],
         gold |-> characterClass.startingGold,
         armorClass |-> calculateArmorClass(modifiers.dexterity)]

\* The loop of awardExperience: one hit-die roll per level gained
RECURSIVE LevelUpLoop(_, _, _)
LevelUpLoop(updatedCharacter, leveledUp, hitDie) ==
    IF updatedCharacter.experience >= updatedCharacter.level * 1000
    THEN UNION {
           LET hitPointIncrease == roll + updatedCharacter.abilityModifiers.constitution
               actualIncrease == Max(1, hitPointIncrease)
           IN  LevelUpLoop(
                 [updatedCharacter EXCEPT
                    !.level = @ + 1,
                    !.hitPoints = [current |-> @.current + actualIncrease,
                                   max |-> @.max + actualIncrease]],
                 TRUE, hitDie)
           : roll \in rollDice(hitDie) }
    ELSE {[character |-> updatedCharacter, leveledUp |-> leveledUp]}

\* awardExperience, gaining one level at most
awardExperienceOneLevel(c, xp) ==
    LET newExperience == c.experience + xp
        xpForNextLevel == c.level * 1000
    IN  IF newExperience >= xpForNextLevel
        THEN { LET actualIncrease == Max(1, roll + c.abilityModifiers.constitution)
               IN  [character |->
                      [c EXCEPT !.experience = newExperience,
                                !.level = @ + 1,
                                !.hitPoints = [current |-> @.current + actualIncrease,
                                               max |-> @.max + actualIncrease]],
                    leveledUp |-> TRUE]
               : roll \in rollDice(getClass(c.class).hitDie) }
        ELSE { [character |-> [c EXCEPT !.experience = newExperience],
                leveledUp |-> FALSE] }

\* awardExperience: the set of results {character, leveledUp}; it returns
\* none when it throws, the class of a character to level up being unknown
awardExperience(c, xp) ==
    LET newExperience == c.experience + xp
        xpForNextLevel == c.level * 1000
    IN  IF newExperience >= xpForNextLevel
        THEN IF getClass(c.class) = Null THEN {}
             ELSE
             LevelUpLoop([c EXCEPT !.experience = newExperience], FALSE,
                         getClass(c.class).hitDie)
        ELSE { [character |-> [c EXCEPT !.experience = newExperience],
                leveledUp |-> FALSE] }

healCharacter(c, amount) ==
    [c EXCEPT !.hitPoints.current = Min(c.hitPoints.max, c.hitPoints.current + amount)]

\* damageCharacter, without the clamp at 0
damageCharacterUnclamped(c, amount) ==
    [c EXCEPT !.hitPoints.current = @ - amount]

damageCharacter(c, amount) ==
    [c EXCEPT !.hitPoints.current = Max(0, c.hitPoints.current - amount)]

isAlive(c) == c.hitPoints.current > 0

----------------------------------------------------------------------------
(* Combat engine (combat.ts)                                               *)

\* The combat value of initializeGame, a successful flee, death and victory
InactiveCombat ==
    [active |-> FALSE, enemies |-> <<>>, enemyMaxHPs |-> <<>>,
     totalEnemyCount |-> 0, turnOrder |-> <<>>, currentTurnIndex |-> 0, round |-> 0]

rollInitiative(dexterityModifier) ==
    {roll + dexterityModifier : roll \in rollDice(20)}

\* The entries of the initiatives object, in insertion order: the character,
\* then each enemy id once, at the place of its first occurrence
InitiativeIds(c, enemies) ==
    LET enemyIds == [i \in 1..Len(enemies) |-> enemies[i].id]
        firstOnly == SelectSeq([i \in 1..Len(enemies) |-> i],
                        LAMBDA i : /\ enemyIds[i] # c.id
                                   /\ \A j \in 1..(i-1) : enemyIds[j] # enemyIds[i])
    IN  <<c.id>> \o [k \in 1..Len(firstOnly) |-> enemyIds[firstOnly[k]]]

\* The dexterity modifier an id rolls its (last written) initiative with
InitiativeModifier(c, enemies, id) ==
    IF \E i \in 1..Len(enemies) : enemies[i].id = id
    THEN LET last == CHOOSE i \in 1..Len(enemies) :
                        /\ enemies[i].id = id
                        /\ \A j \in (i+1)..Len(enemies) : enemies[j].id # id
         IN  IF Has(enemies[last], "stats")
             THEN FloorDiv(enemies[last].stats.armorClass - 10, 2) ELSE 0
    ELSE c.abilityModifiers.dexterity

\* A sort that puts the later of two equal initiatives first
SortByInitiativeLastFirst(ids, initiative) ==
    LET n == Len(ids)
        rank(i) == 1 + Cardinality({j \in 1..n :
                          \/ initiative[j] > initiative[i]
                          \/ initiative[j] = initiative[i] /\ j > i})
    IN  [k \in 1..n |-> ids[CHOOSE i \in 1..n : rank(i) = k]]

\* entries.sort((a, b) => b - a): the stable sort, highest initiative first
SortByInitiative(ids, initiative) ==
    LET n == Len(ids)
        rank(i) == 1 + Cardinality({j \in 1..n :
                          \/ initiative[j] > initiative[i]
                          \/ initiative[j] = initiative[i] /\ j < i})
    IN  [k \in 1..n |-> ids[CHOOSE i \in 1..n : rank(i) = k]]

\* The turn order of determineTurnOrder when the d20 rolls of the entries of
\* the initiatives object are rolls
TurnOrderOf(c, enemies, rolls) ==
    LET ids == InitiativeIds(c, enemies)
    IN  SortByInitiative(ids,
            [i \in 1..Len(ids) |-> rolls[i] + InitiativeModifier(c, enemies, ids[i])])

\* determineTurnOrder: the turn orders the initiative rolls can give
determineTurnOrder(c, enemies) ==
    { TurnOrderOf(c, enemies, rolls)
      : rolls \in [1..Len(InitiativeIds(c, enemies)) -> rollDice(20)] }

\* makeAttackRoll where a natural 20 has to reach the armor class too
makeAttackRollByTotal(attackBonus, targetAC, roll) ==
    LET total == roll + attackBonus
    IN  [roll |-> roll, total |-> total,
         hits |-> (total >= targetAC),
         critical |-> (roll = 20),
         criticalFail |-> (roll = 1)]

\* makeAttackRoll, for the d20 roll given
makeAttackRoll(attackBonus, targetAC, roll) ==
    LET total == roll + attackBonus
    IN  [roll |-> roll, total |-> total,
         hits |-> (total >= targetAC \/ roll = 20),
         critical |-> (roll = 20),
         criticalFail |-> (roll = 1)]

\* The sums of numDice rolls of a die
RECURSIVE DiceTotals(_, _)
DiceTotals(numDice, dieSize) ==
    IF numDice <= 0 THEN {0}
    ELSE {r + t : r \in rollDice(dieSize), t \in DiceTotals(numDice - 1, dieSize)}

\* rollDamage of the expression "<numDice>d<dieSize><modifier>", kept parsed
rollDamage(damage) ==
    {Max(0, damage.modifier + t) : t \in DiceTotals(damage.numDice, damage.dieSize)}

getAttackBonus(c) ==
    LET proficiencyBonus == FloorDiv(c.level - 1, 4) + 2
    IN  c.abilityModifiers.strength + proficiencyBonus

baseDamage(class) ==
    CASE class \in {"Fighter", "Paladin"} -> 8
      [] class \in {"Ranger", "Cleric", "Rogue"} -> 6
      [] class = "Wizard" -> 4
      [] OTHER -> 6

\* getWeaponDamage (melee): "1d<base>" and the signed strength modifier
getWeaponDamage(c) ==
    [numDice |-> 1, dieSize |-> baseDamage(c.class),
     modifier |-> c.abilityModifiers.strength]

\* The damage and message of an attack whose roll is attackRoll.  Of the
\* roll the result keeps hits and critical; of the message text, which
\* template it is and, for a miss, the armor class it names
AttackResults(attackRoll, damage, targetAC) ==
    IF attackRoll.critical
    THEN {[damage |-> d * 2, message |-> <<"critical hit">>, hits |-> attackRoll.hits,
           critical |-> TRUE] : d \in rollDamage(damage)}
    ELSE IF attackRoll.hits
    THEN {[damage |-> d, message |-> <<"hit">>, hits |-> TRUE, critical |-> FALSE]
            : d \in rollDamage(damage)}
    ELSE IF attackRoll.criticalFail
    THEN {[damage |-> 0, message |-> <<"critical miss">>, hits |-> FALSE,
           critical |-> FALSE]}
    ELSE {[damage |-> 0, message |-> <<"miss vs AC", ToString(targetAC)>>,
           hits |-> FALSE, critical |-> FALSE]}

\* characterAttack: the results it can return; it returns none when it
\* throws, the enemy having no stats
characterAttack(c, enemy) ==
    IF ~Has(enemy, "stats") THEN {}
    ELSE
    UNION { AttackResults(makeAttackRoll(getAttackBonus(c), enemy.stats.armorClass, roll),
                          getWeaponDamage(c), enemy.stats.armorClass)
            : roll \in rollDice(20) }

\* enemyAttack: the results it can return; it returns none when it throws,
\* the enemy having no stats
enemyAttack(enemy, c) ==
    IF ~Has(enemy, "stats") THEN {}
    ELSE
    UNION { AttackResults(makeAttackRoll(enemy.stats.attackBonus, c.armorClass, roll),
                          enemy.stats.damage, c.armorClass)
            : roll \in rollDice(20) }

\* attemptFlee, succeeding only above the DC
attemptFleeAboveDC(c) ==
    { LET dc == 12
          total == roll + c.abilityModifiers.dexterity
          success == total > dc
      IN  [success |-> success, roll |-> total,
           message |-> IF success THEN <<"flees", ToString(total)>>
                       ELSE <<"fails to escape", ToString(total)>>]
      : roll \in rollDice(20) }

\* attemptFlee, whose roll is already the total: the flee succeeds on
\* d20 + dexterity modifier of 12 or more, and the message tells the total
attemptFlee(c) ==
    { LET dc == 12
          total == roll + c.abilityModifiers.dexterity
          success == total >= dc
      IN  [success |-> success, roll |-> total,
           message |-> IF success THEN <<"flees", ToString(total)>>
                       ELSE <<"fails to escape", ToString(total)>>]
      : roll \in rollDice(20) }

\* The combat state of initiateCombat when determineTurnOrder gives turnOrder
CombatOf(c, enemies, turnOrder) ==
    LET withStats == {i \in 1..Len(enemies) : Has(enemies[i], "stats")}
        statIds == {enemies[i].id : i \in withStats}
        enemyMaxHPs ==
          [id \in statIds |->
             LET last == CHOOSE i \in withStats :
                           /\ enemies[i].id = id
                           /\ \A j \in withStats : enemies[j].id = id => j <= i
             IN  enemies[last].stats.hitPoints]
    IN  [active |-> TRUE,
         enemies |-> enemies,
         enemyMaxHPs |-> enemyMaxHPs,
         totalEnemyCount |-> Len(enemies),
         turnOrder |-> turnOrder,
         currentTurnIndex |-> 0,
         round |-> 1]

\* initiateCombat: one combat state per turn order
initiateCombat(c, enemies) ==
    { CombatOf(c, enemies, turnOrder) : turnOrder \in determineTurnOrder(c, enemies) }

\* getCurrentCombatant: undefined past the end of the turn order
getCurrentCombatant(cmb) ==
    IF cmb.currentTurnIndex + 1 \in 1..Len(cmb.turnOrder)
    THEN cmb.turnOrder[cmb.currentTurnIndex + 1] ELSE Undefined

isPlayerTurn(cmb, playerId) == getCurrentCombatant(cmb) = playerId

nextTurn(cmb) ==
    LET nextIndex == cmb.currentTurnIndex + 1
    IN  IF nextIndex >= Len(cmb.turnOrder)
        THEN [cmb EXCEPT !.currentTurnIndex = 0, !.round = @ + 1]
        ELSE [cmb EXCEPT !.currentTurnIndex = nextIndex]

EnemyDown(e) == Has(e, "stats") /\ e.stats.hitPoints <= 0

\* updateEnemyHP that leaves the defeated enemy its place in the turn order
updateEnemyHPKeepsThePlace(cmb, enemyId, damage) ==
    LET updatedEnemies ==
          [i \in 1..Len(cmb.enemies) |->
             LET enemy == cmb.enemies[i]
             IN  IF enemy.id = enemyId /\ Has(enemy, "stats")
                 THEN [enemy EXCEPT !.stats.hitPoints = Max(0, @ - damage)]
                 ELSE enemy]
        enemyDefeated ==
          \E i \in 1..Len(updatedEnemies) :
             updatedEnemies[i].id = enemyId /\ EnemyDown(updatedEnemies[i])
        remainingEnemies == SelectSeq(updatedEnemies, LAMBDA e : ~EnemyDown(e))
    IN  [combat |-> [cmb EXCEPT !.enemies = remainingEnemies],
         enemyDefeated |-> enemyDefeated]

\* updateEnemyHP: {combat, enemyDefeated}
updateEnemyHP(cmb, enemyId, damage) ==
    LET updatedEnemies ==
          [i \in 1..Len(cmb.enemies) |->
             LET enemy == cmb.enemies[i]
             IN  IF enemy.id = enemyId /\ Has(enemy, "stats")
                 THEN [enemy EXCEPT !.stats.hitPoints = Max(0, @ - damage)]
                 ELSE enemy]
        enemyDefeated ==
          \E i \in 1..Len(updatedEnemies) :
             updatedEnemies[i].id = enemyId /\ EnemyDown(updatedEnemies[i])
        remainingEnemies == SelectSeq(updatedEnemies, LAMBDA e : ~EnemyDown(e))
        turnOrder == IF enemyDefeated
                     THEN SelectSeq(cmb.turnOrder, LAMBDA id : id # enemyId)
                     ELSE cmb.turnOrder
    IN  [combat |-> [cmb EXCEPT !.enemies = remainingEnemies, !.turnOrder = turnOrder],
         enemyDefeated |-> enemyDefeated]

\* shouldEndCombat: shouldEnd and victory are the same value
shouldEndCombat(cmb) ==
    \A i \in 1..Len(cmb.enemies) : ~Has(cmb.enemies[i], "stats") \/ EnemyDown(cmb.enemies[i])

\* The gold rolls drawn of Math.floor(Math.random() * 41) + 10, which is any
\* of 10..50: the least, the middle and the greatest
GoldRolls == {10, 30, 50}

\* The totals of count gold rolls
RECURSIVE GoldTotals(_)
GoldTotals(count) ==
    IF count <= 0 THEN {0}
    ELSE {g + t : g \in GoldRolls, t \in GoldTotals(count - 1)}

\* endCombat, counting the enemies that are left
endCombatOfTheLiving(cmb) ==
    { [experienceGained |-> Len(cmb.enemies) * 100, goldGained |-> g]
      : g \in GoldTotals(Len(cmb.enemies)) }

\* endCombat: the rewards {experienceGained, goldGained}
endCombat(cmb) ==
    LET count == IF cmb.totalEnemyCount # 0 THEN cmb.totalEnemyCount
                 ELSE Len(cmb.enemies)
    IN  { [experienceGained |-> count * 100, goldGained |-> g] : g \in GoldTotals(count) }

----------------------------------------------------------------------------
(* Action processor (game-engine.ts)                                       *)

REST_LOCATIONS == {"tavern-rooms", "forest-clearing"}

createLogEntry(message, type) == [message |-> message, type |-> type]

\* addLog, the new entry written over the last one
addLogOverTheLast(s, message, type) ==
    [s EXCEPT !.gameLog = SubSeq(@, 1, Len(@) - 1) \o <<createLogEntry(message, type)>>]

\* addLog: message is the tuple of the template's tag and its subject ids
addLog(s, message, type) ==
    [s EXCEPT !.gameLog = Append(@, createLogEntry(message, type))]

RECURSIVE addLogs(_, _, _)
addLogs(s, messages, type) ==
    IF Len(messages) = 0 THEN s
    ELSE addLogs(addLog(s, Head(messages), type), Tail(messages), type)

\* runEnemyTurns, going on when the character has fallen
RECURSIVE runEnemyTurnsPastDeath(_)
runEnemyTurnsPastDeath(s) ==
    IF ~(s.combat.active /\ ~isPlayerTurn(s.combat, s.character.id)) THEN <<s>>
    ELSE
      LET currentId == getCurrentCombatant(s.combat)
          i == FindIndex(s.combat.enemies, LAMBDA e : e.id = currentId)
      IN  IF i = 0 \/ ~Has(s.combat.enemies[i], "stats")
               \/ s.combat.enemies[i].stats.hitPoints <= 0
          THEN runEnemyTurnsPastDeath([s EXCEPT !.combat = nextTurn(@)])
          ELSE
            LET enemy == s.combat.enemies[i]
                After(result) ==
                  LET logged == addLog(s, <<"enemy", enemy.id>> \o result.message, "combat")
                      damaged == [logged EXCEPT
                                    !.character = damageCharacter(@, result.damage)]
                      fallen == IF result.damage > 0 /\ ~isAlive(damaged.character)
                                THEN addLog(damaged, <<"has fallen">>, "error")
                                ELSE damaged
                  IN  runEnemyTurnsPastDeath([fallen EXCEPT !.combat = nextTurn(@)])
            IN  ForEach(enemyAttack(enemy, s.character), After)

\* runEnemyTurns, every enemy striking twice on its turn
RECURSIVE runEnemyTurnsTwice(_)
runEnemyTurnsTwice(s) ==
    IF ~(s.combat.active /\ ~isPlayerTurn(s.combat, s.character.id)) THEN <<s>>
    ELSE
      LET currentId == getCurrentCombatant(s.combat)
          i == FindIndex(s.combat.enemies, LAMBDA e : e.id = currentId)
      IN  IF i = 0 \/ ~Has(s.combat.enemies[i], "stats")
               \/ s.combat.enemies[i].stats.hitPoints <= 0
          THEN runEnemyTurnsTwice([s EXCEPT !.combat = nextTurn(@)])
          ELSE
            LET enemy == s.combat.enemies[i]
                Fallen(damaged) ==
                  <<[addLog(damaged, <<"has fallen">>, "error")
                       EXCEPT !.combat = InactiveCombat]>>
                After(result) ==
                  LET logged == addLog(s, <<"enemy", enemy.id>> \o result.message, "combat")
                      damaged == [logged EXCEPT
                                    !.character = damageCharacter(@, result.damage)]
                      Again(second) ==
                        LET relogged == addLog(damaged, <<"enemy", enemy.id>> \o second.message,
                                               "combat")
                            redamaged == [relogged EXCEPT
                                            !.character = damageCharacter(@, second.damage)]
                        IN  IF second.damage > 0 /\ ~isAlive(redamaged.character)
                            THEN Fallen(redamaged)
                            ELSE runEnemyTurnsTwice([redamaged EXCEPT !.combat = nextTurn(@)])
                  IN  IF result.damage > 0 /\ ~isAlive(damaged.character)
                      THEN Fallen(damaged)
                      ELSE ForEach(enemyAttack(enemy, damaged.character), Again)
            IN  ForEach(enemyAttack(enemy, s.character), After)

\* runEnemyTurns: enemy turns until it is the player's turn or combat ends
RECURSIVE runEnemyTurns(_)
runEnemyTurns(s) ==
    IF ~(s.combat.active /\ ~isPlayerTurn(s.combat, s.character.id)) THEN <<s>>
    ELSE
      LET currentId == getCurrentCombatant(s.combat)
          i == FindIndex(s.combat.enemies, LAMBDA e : e.id = currentId)
      IN  IF i = 0 \/ ~Has(s.combat.enemies[i], "stats")
               \/ s.combat.enemies[i].stats.hitPoints <= 0
          THEN runEnemyTurns([s EXCEPT !.combat = nextTurn(@)])
          ELSE
            LET enemy == s.combat.enemies[i]
                After(result) ==
                  LET logged == addLog(s, <<"enemy", enemy.id>> \o result.message, "combat")
                      damaged == [logged EXCEPT
                                    !.character = damageCharacter(@, result.damage)]
                  IN  IF result.damage > 0
                      THEN IF ~isAlive(damaged.character)
                           THEN <<[addLog(damaged, <<"has fallen">>, "error")
                                     EXCEPT !.combat = InactiveCombat]>>
                           ELSE runEnemyTurns([damaged EXCEPT !.combat = nextTurn(@)])
                      ELSE runEnemyTurns([logged EXCEPT !.combat = nextTurn(@)])
            IN  ForEach(enemyAttack(enemy, s.character), After)

\* handleCombatVictory: rewards, combat reset, defeated NPCs leave the map
handleCombatVictory(s) ==
    LET Settle(outcome) ==
          LET rewards == outcome[1]
              award == outcome[2]
              updatedCharacter ==
                [award.character EXCEPT !.gold = @ + rewards.goldGained]
              reset == [s EXCEPT !.character = updatedCharacter,
                                 !.combat = InactiveCombat]
              logged1 == addLog(reset, <<"victory">>, "success")
              logged2 == IF award.leveledUp
                         THEN addLog(logged1, <<"level up">>, "success")
                         ELSE logged1
              defeatedIds == {s.combat.enemies[i].id : i \in 1..Len(s.combat.enemies)}
              updatedLocations ==
                [locId \in DOMAIN logged2.locations |->
                   [logged2.locations[locId] EXCEPT
                      !.npcs = SelectSeq(@, LAMBDA id : id \notin defeatedIds)]]
          IN  <<[logged2 EXCEPT !.locations = updatedLocations]>>
    IN  ForEach(UNION { {<<rewards, award>> :
                           award \in awardExperience(s.character, rewards.experienceGained)}
                        : rewards \in endCombat(s.combat) },
                Settle)

\* processPlayerAttack where an attack on someone who is not in the fight
\* takes the turn
processPlayerAttackLosesTheTurn(s, targetId) ==
    LET i == FindIndex(s.combat.enemies, LAMBDA e : e.id = targetId)
    IN  IF i = 0
        THEN runEnemyTurns([addLog(s, <<"not in this fight">>, "warning")
                              EXCEPT !.combat = nextTurn(@)])
        ELSE
          LET enemy == s.combat.enemies[i]
              After(result) ==
                LET logged == addLog(s, <<"character", enemy.id>> \o result.message, "combat")
                    update == updateEnemyHP(logged.combat, targetId, result.damage)
                    hit == IF result.damage > 0
                           THEN IF update.enemyDefeated
                                THEN addLog([logged EXCEPT !.combat = update.combat],
                                            <<"has been defeated", targetId>>, "success")
                                ELSE [logged EXCEPT !.combat = update.combat]
                           ELSE logged
                IN  IF shouldEndCombat(hit.combat)
                    THEN handleCombatVictory(hit)
                    ELSE runEnemyTurns([hit EXCEPT !.combat = nextTurn(@)])
          IN  ForEach(characterAttack(s.character, enemy), After)

\* processPlayerAttack: the player's attack, then victory or the enemy turns
processPlayerAttack(s, targetId) ==
    LET i == FindIndex(s.combat.enemies, LAMBDA e : e.id = targetId)
    IN  IF i = 0 THEN <<addLog(s, <<"not in this fight">>, "warning")>>
        ELSE
          LET enemy == s.combat.enemies[i]
              After(result) ==
                LET logged == addLog(s, <<"character", enemy.id>> \o result.message, "combat")
                    update == updateEnemyHP(logged.combat, targetId, result.damage)
                    hit == IF result.damage > 0
                           THEN IF update.enemyDefeated
                                THEN addLog([logged EXCEPT !.combat = update.combat],
                                            <<"has been defeated", targetId>>, "success")
                                ELSE [logged EXCEPT !.combat = update.combat]
                           ELSE logged
                IN  IF shouldEndCombat(hit.combat)
                    THEN handleCombatVictory(hit)
                    ELSE runEnemyTurns([hit EXCEPT !.combat = nextTurn(@)])
          IN  ForEach(characterAttack(s.character, enemy), After)

\* handleAttack, with the enemies that won the initiative acting first
handleAttackByInitiative(s, targetId) ==
    IF ~s.combat.active
    THEN IF targetId \notin DOMAIN s.npcs
         THEN <<addLog(s, <<"target does not exist">>, "error")>>
         ELSE IF ~Has(s.npcs[targetId], "stats")
         THEN <<addLog(s, <<"cannot attack", targetId>>, "warning")>>
         ELSE LET Begin(combatState) ==
                    LET started == runEnemyTurns(
                                     [addLog(s, <<"you attack", targetId>>, "combat")
                                        EXCEPT !.combat = combatState])
                    IN  Flatten([k \in 1..Len(started) |->
                                   IF started[k].combat.active
                                   THEN processPlayerAttack(started[k], targetId)
                                   ELSE <<started[k]>>])
              IN  ForEach(initiateCombat(s.character, <<s.npcs[targetId]>>), Begin)
    ELSE IF ~isPlayerTurn(s.combat, s.character.id)
    THEN <<addLog(s, <<"not your turn">>, "warning")>>
    ELSE processPlayerAttack(s, targetId)

\* handleAttack that begins a fight with whoever is named
handleAttackOfAnyone(s, targetId) ==
    IF ~s.combat.active
    THEN IF targetId \notin DOMAIN s.npcs
         THEN <<addLog(s, <<"target does not exist">>, "error")>>
         ELSE LET Begin(combatState) ==
                    processPlayerAttack(
                      [addLog(s, <<"you attack", targetId>>, "combat")
                         EXCEPT !.combat = combatState],
                      targetId)
              IN  ForEach(initiateCombat(s.character, <<s.npcs[targetId]>>), Begin)
    ELSE IF ~isPlayerTurn(s.combat, s.character.id)
    THEN <<addLog(s, <<"not your turn">>, "warning")>>
    ELSE processPlayerAttack(s, targetId)

\* handleAttack: outside combat a fight with the NPC named begins, if it has
\* stats; then, and in combat on the player's turn, the player attacks
handleAttack(s, targetId) ==
    IF ~s.combat.active
    THEN IF targetId \notin DOMAIN s.npcs
         THEN <<addLog(s, <<"target does not exist">>, "error")>>
         ELSE IF ~Has(s.npcs[targetId], "stats")
         THEN <<addLog(s, <<"cannot attack", targetId>>, "warning")>>
         ELSE LET Begin(combatState) ==
                    processPlayerAttack(
                      [addLog(s, <<"you attack", targetId>>, "combat")
                         EXCEPT !.combat = combatState],
                      targetId)
              IN  ForEach(initiateCombat(s.character, <<s.npcs[targetId]>>), Begin)
    ELSE IF ~isPlayerTurn(s.combat, s.character.id)
    THEN <<addLog(s, <<"not your turn">>, "warning")>>
    ELSE processPlayerAttack(s, targetId)

\* handleDefend, without taking the bonus back
handleDefendKeepsBonus(s) ==
    IF ~s.combat.active THEN <<addLog(s, <<"not in combat">>, "warning")>>
    ELSE IF ~isPlayerTurn(s.combat, s.character.id)
    THEN <<addLog(s, <<"not your turn">>, "warning")>>
    ELSE
      LET logged == addLog(s, <<"defensive stance">>, "combat")
          boosted == [logged EXCEPT !.character.armorClass = @ + 2,
                                    !.combat = nextTurn(@)]
      IN  runEnemyTurns(boosted)

handleDefend(s) ==
    IF ~s.combat.active THEN <<addLog(s, <<"not in combat">>, "warning")>>
    ELSE IF ~isPlayerTurn(s.combat, s.character.id)
    THEN <<addLog(s, <<"not your turn">>, "warning")>>
    ELSE
      LET logged == addLog(s, <<"defensive stance">>, "combat")
          boosted == [logged EXCEPT !.character.armorClass = @ + 2,
                                    !.combat = nextTurn(@)]
          afterEnemies == runEnemyTurns(boosted)
      IN  [k \in 1..Len(afterEnemies) |->
             [afterEnemies[k] EXCEPT !.character.armorClass = @ - 2]]

\* handleFlee that returns after a failed flight without the enemy turns
handleFleeAndReturn(s) ==
    IF ~s.combat.active THEN <<addLog(s, <<"nothing to flee from">>, "warning")>>
    ELSE LET After(result) ==
               LET logged == addLog(s, result.message, "combat")
               IN  IF result.success
                   THEN <<addLog([logged EXCEPT !.combat = InactiveCombat],
                                 <<"escaped">>, "success")>>
                   ELSE <<[logged EXCEPT !.combat = nextTurn(@)]>>
         IN  ForEach(attemptFlee(s.character), After)

\* handleFlee, the wounds of the enemies written back to the NPCs of the state
handleFleeKeepingWounds(s) ==
    IF ~s.combat.active THEN <<addLog(s, <<"nothing to flee from">>, "warning")>>
    ELSE LET Wounded(id) == {e \in Range(s.combat.enemies) : e.id = id}
             kept == [id \in DOMAIN s.npcs |->
                        IF Wounded(id) = {} THEN s.npcs[id]
                        ELSE CHOOSE e \in Wounded(id) : TRUE]
             After(result) ==
               LET logged == addLog(s, result.message, "combat")
               IN  IF result.success
                   THEN <<addLog([logged EXCEPT !.combat = InactiveCombat, !.npcs = kept],
                                 <<"escaped">>, "success")>>
                   ELSE runEnemyTurns([logged EXCEPT !.combat = nextTurn(@)])
         IN  ForEach(attemptFlee(s.character), After)

handleFlee(s) ==
    IF ~s.combat.active THEN <<addLog(s, <<"nothing to flee from">>, "warning")>>
    ELSE LET After(result) ==
               LET logged == addLog(s, result.message, "combat")
               IN  IF result.success
                   THEN <<addLog([logged EXCEPT !.combat = InactiveCombat],
                                 <<"escaped">>, "success")>>
                   ELSE runEnemyTurns([logged EXCEPT !.combat = nextTurn(@)])
         IN  ForEach(attemptFlee(s.character), After)

\* handleMove, starting the combat against the first hostile NPC alone
handleMoveAgainstTheFirst(s, direction) ==
    IF s.combat.active THEN <<addLog(s, <<"cannot move in combat">>, "warning")>>
    ELSE
      LET s1 == IF s.activeDialogue # Null THEN [s EXCEPT !.activeDialogue = Null] ELSE s
          currentLocation == s1.locations[s1.currentLocationId]
          targetLocationId == getConnectedLocation(currentLocation, direction)
      IN  IF targetLocationId = Undefined
          THEN <<addLog(s1, <<"cannot go", direction>>, "warning")>>
          ELSE IF targetLocationId \notin DOMAIN s1.locations
          THEN <<addLog(s1, <<"leads nowhere">>, "error")>>
          ELSE
            LET targetLocation == s1.locations[targetLocationId]
                moved == [s1 EXCEPT !.currentLocationId = targetLocationId,
                                    !.locations[targetLocationId].visited = TRUE]
                described == addLog(moved, <<"description", targetLocationId>>, "info")
                withItems == IF Len(targetLocation.items) > 0
                             THEN addLog(described, <<"on the ground">>, "info")
                             ELSE described
                hostileNpcIds ==
                  SelectSeq(targetLocation.npcs,
                    LAMBDA npcId : /\ npcId \in DOMAIN withItems.npcs
                                   /\ isHostile(withItems.npcs[npcId])
                                   /\ Has(withItems.npcs[npcId], "stats")
                                   /\ withItems.npcs[npcId].stats.hitPoints > 0)
                hostileNpcs == [k \in 1..Len(hostileNpcIds) |-> withItems.npcs[hostileNpcIds[k]]]
                friendlyNpcs ==
                  SelectSeq(targetLocation.npcs,
                    LAMBDA npcId : /\ npcId \in DOMAIN withItems.npcs
                                   /\ ~withItems.npcs[npcId].hostile)
            IN  IF Len(hostileNpcIds) > 0
                THEN LET Begin(combatState) ==
                           runEnemyTurns([addLog(withItems, <<"attacks you">>, "combat")
                                            EXCEPT !.combat = combatState])
                     IN  ForEach(initiateCombat(withItems.character, <<hostileNpcs[1]>>), Begin)
                ELSE IF Len(friendlyNpcs) > 0
                THEN <<addLog(withItems, <<"you see">>, "info")>>
                ELSE <<withItems>>

handleMove(s, direction) ==
    IF s.combat.active THEN <<addLog(s, <<"cannot move in combat">>, "warning")>>
    ELSE
      LET s1 == IF s.activeDialogue # Null THEN [s EXCEPT !.activeDialogue = Null] ELSE s
          currentLocation == s1.locations[s1.currentLocationId]
          targetLocationId == getConnectedLocation(currentLocation, direction)
      IN  IF targetLocationId = Undefined
          THEN <<addLog(s1, <<"cannot go", direction>>, "warning")>>
          ELSE IF targetLocationId \notin DOMAIN s1.locations
          THEN <<addLog(s1, <<"leads nowhere">>, "error")>>
          ELSE
            LET targetLocation == s1.locations[targetLocationId]
                moved == [s1 EXCEPT !.currentLocationId = targetLocationId,
                                    !.locations[targetLocationId].visited = TRUE]
                described == addLog(moved, <<"description", targetLocationId>>, "info")
                withItems == IF Len(targetLocation.items) > 0
                             THEN addLog(described, <<"on the ground">>, "info")
                             ELSE described
                hostileNpcIds ==
                  SelectSeq(targetLocation.npcs,
                    LAMBDA npcId : /\ npcId \in DOMAIN withItems.npcs
                                   /\ isHostile(withItems.npcs[npcId])
                                   /\ Has(withItems.npcs[npcId], "stats")
                                   /\ withItems.npcs[npcId].stats.hitPoints > 0)
                hostileNpcs == [k \in 1..Len(hostileNpcIds) |-> withItems.npcs[hostileNpcIds[k]]]
                friendlyNpcs ==
                  SelectSeq(targetLocation.npcs,
                    LAMBDA npcId : /\ npcId \in DOMAIN withItems.npcs
                                   /\ ~withItems.npcs[npcId].hostile)
            IN  IF Len(hostileNpcIds) > 0
                THEN LET Begin(combatState) ==
                           runEnemyTurns([addLog(withItems, <<"attacks you">>, "combat")
                                            EXCEPT !.combat = combatState])
                     IN  ForEach(initiateCombat(withItems.character, hostileNpcs), Begin)
                ELSE IF Len(friendlyNpcs) > 0
                THEN <<addLog(withItems, <<"you see">>, "info")>>
                ELSE <<withItems>>

\* handleTalk, never entering dialogue mode
handleTalkWithoutDialogue(s, npcId) ==
    IF s.combat.active THEN addLog(s, <<"cannot talk in combat">>, "warning")
    ELSE IF npcId \notin DOMAIN s.npcs
    THEN addLog(s, <<"person does not exist">>, "error")
    ELSE IF npcId \notin Range(s.locations[s.currentLocationId].npcs)
    THEN addLog(s, <<"is not here", npcId>>, "warning")
    ELSE IF isHostile(s.npcs[npcId])
    THEN addLog(s, <<"is hostile", npcId>>, "warning")
    ELSE
      LET startDialogue == getStartingDialogue(s.npcs[npcId])
      IN  IF startDialogue = Null THEN addLog(s, <<"nothing to say", npcId>>, "info")
          ELSE IF Len(startDialogue.options) > 0
          THEN addLog(addLog(s, <<"npc says", npcId, startDialogue.id>>, "dialogue"),
                      <<"options">>, "dialogue")
          ELSE addLog(s, <<"npc says", npcId, startDialogue.id>>, "dialogue")

\* handleTalk, to whoever is named, here or not, hostile or not
handleTalkToAnyone(s, npcId) ==
    IF s.combat.active THEN addLog(s, <<"cannot talk in combat">>, "warning")
    ELSE IF npcId \notin DOMAIN s.npcs
    THEN addLog(s, <<"person does not exist">>, "error")
    ELSE
      LET startDialogue == getStartingDialogue(s.npcs[npcId])
      IN  IF startDialogue = Null THEN addLog(s, <<"nothing to say", npcId>>, "info")
          ELSE IF Len(startDialogue.options) > 0
          THEN [addLog(addLog(s, <<"npc says", npcId, startDialogue.id>>, "dialogue"),
                       <<"options">>, "dialogue")
                  EXCEPT !.activeDialogue =
                           [npcId |-> npcId, currentNodeId |-> startDialogue.id]]
          ELSE addLog(s, <<"npc says", npcId, startDialogue.id>>, "dialogue")

handleTalk(s, npcId) ==
    IF s.combat.active THEN addLog(s, <<"cannot talk in combat">>, "warning")
    ELSE IF npcId \notin DOMAIN s.npcs
    THEN addLog(s, <<"person does not exist">>, "error")
    ELSE IF npcId \notin Range(s.locations[s.currentLocationId].npcs)
    THEN addLog(s, <<"is not here", npcId>>, "warning")
    ELSE IF isHostile(s.npcs[npcId])
    THEN addLog(s, <<"is hostile", npcId>>, "warning")
    ELSE
      LET startDialogue == getStartingDialogue(s.npcs[npcId])
      IN  IF startDialogue = Null THEN addLog(s, <<"nothing to say", npcId>>, "info")
          ELSE IF Len(startDialogue.options) > 0
          THEN [addLog(addLog(s, <<"npc says", npcId, startDialogue.id>>, "dialogue"),
                       <<"options">>, "dialogue")
                  EXCEPT !.activeDialogue =
                           [npcId |-> npcId, currentNodeId |-> startDialogue.id]]
          ELSE addLog(s, <<"npc says", npcId, startDialogue.id>>, "dialogue")

\* addShopLog entries of the shopkeeper's "For Sale" callback
listForSale(s) ==
    IF ~("shopkeeper" \in DOMAIN s.npcs /\ Has(s.npcs["shopkeeper"], "shop"))
         \/ Len(s.npcs["shopkeeper"].shop.items) = 0
    THEN addLog(s, <<"all sold out">>, "info")
    ELSE LET items == s.npcs["shopkeeper"].shop.items
         IN  addLog(addLogs(addLog(s, <<"for sale">>, "info"),
                            [k \in 1..Len(items) |-> <<"price", items[k].id>>], "info"),
                    <<"use buy">>, "info")

\* addShopLog entries of the shopkeeper's "Your Items" callback
listSellable(s) ==
    IF ~("shopkeeper" \in DOMAIN s.npcs /\ Has(s.npcs["shopkeeper"], "shop")) THEN s
    ELSE LET items == s.character.inventory.items
         IN  IF Len(items) = 0 THEN addLog(s, <<"nothing to sell">>, "info")
             ELSE addLog(addLogs(addLog(s, <<"your items">>, "info"),
                                 [k \in 1..Len(items) |-> <<"price", items[k].id>>], "info"),
                         <<"use sell">>, "info")

\* option.action(state), the callback named by the option's action tag
applyOptionAction(action, s) ==
    CASE action = "listForSale" -> listForSale(s)
      [] action = "listSellable" -> listSellable(s)
      [] action = "acceptQuest" -> s
      [] OTHER -> s

\* followOption, staying in the conversation at a node without options
followOptionToTheSilent(s1, npcId, option) ==
    LET npc == s1.npcs[npcId]
        acted == IF Has(option, "action")
                 THEN applyOptionAction(option.action, s1) ELSE s1
        nextNode == IF Has(option, "nextNodeId")
                    THEN getDialogueNode(npc, option.nextNodeId)
                    ELSE Null
    IN  IF nextNode # Null
        THEN [addLog(acted, <<"npc says", npcId, nextNode.id>>, "dialogue")
                EXCEPT !.activeDialogue =
                         [npcId |-> npcId, currentNodeId |-> nextNode.id]]
        ELSE [acted EXCEPT !.activeDialogue = Null]

\* handleDialogueSelect, from the option's callback on: the callback, then
\* the next node if there is one, and the end of the conversation if not
followOption(s1, npcId, option) ==
    LET npc == s1.npcs[npcId]
        acted == IF Has(option, "action")
                 THEN applyOptionAction(option.action, s1) ELSE s1
        nextNode == IF Has(option, "nextNodeId")
                    THEN getDialogueNode(npc, option.nextNodeId)
                    ELSE Null
    IN  IF nextNode # Null
        THEN IF Len(nextNode.options) > 0
             THEN [addLog(addLog(acted, <<"npc says", npcId, nextNode.id>>, "dialogue"),
                          <<"options">>, "dialogue")
                     EXCEPT !.activeDialogue =
                              [npcId |-> npcId, currentNodeId |-> nextNode.id]]
             ELSE [addLog(acted, <<"npc says", npcId, nextNode.id>>, "dialogue")
                     EXCEPT !.activeDialogue = Null]
        ELSE [acted EXCEPT !.activeDialogue = Null]

\* resolveCheck, taking the option also when the check failed
resolveCheckAnyway(said, npcId, option) ==
    LET Check(roll) ==
          LET total == roll + said.character.abilityModifiers[option.requiresCheck.ability]
              success == total >= option.requiresCheck.dc
              checked == addLog(said, <<"ability check", option.requiresCheck.ability,
                                        ToString(total),
                                        ToString(option.requiresCheck.dc)>>,
                                IF success THEN "success" ELSE "warning")
          IN  IF ~success
              THEN <<followOption(addLog(checked, <<"is not convinced", npcId>>, "dialogue"),
                                  npcId, option)>>
              ELSE <<followOption(checked, npcId, option)>>
    IN  ForEach(rollDice(20), Check)

\* handleDialogueSelect, the ability check of the option: d20 + modifier
\* against the DC; a failure stays on the node, a success follows the option
resolveCheck(said, npcId, option) ==
    LET Check(roll) ==
          LET total == roll + said.character.abilityModifiers[option.requiresCheck.ability]
              success == total >= option.requiresCheck.dc
              checked == addLog(said, <<"ability check", option.requiresCheck.ability,
                                        ToString(total),
                                        ToString(option.requiresCheck.dc)>>,
                                IF success THEN "success" ELSE "warning")
          IN  IF ~success
              THEN <<addLog(checked, <<"is not convinced", npcId>>, "dialogue")>>
              ELSE <<followOption(checked, npcId, option)>>
    IN  ForEach(rollDice(20), Check)

handleDialogueSelect(s, optionIndex) ==
    IF s.activeDialogue = Null THEN <<addLog(s, <<"not in a conversation">>, "warning")>>
    ELSE
      LET npcId == s.activeDialogue.npcId
          currentNodeId == s.activeDialogue.currentNodeId
      IN  IF npcId \notin DOMAIN s.npcs THEN <<[s EXCEPT !.activeDialogue = Null]>>
          ELSE IF optionIndex = -1
          THEN <<[addLog(s, <<"end the conversation", npcId>>, "info")
                    EXCEPT !.activeDialogue = Null]>>
          ELSE
            LET npc == s.npcs[npcId]
                currentNode == getDialogueNode(npc, currentNodeId)
            IN  IF currentNode = Null
                THEN <<[addLog(s, <<"nothing more to say", npcId>>, "info")
                          EXCEPT !.activeDialogue = Null]>>
                ELSE IF optionIndex < 0 \/ optionIndex >= Len(currentNode.options)
                THEN <<addLog(s, <<"choose a number">>, "warning")>>
                ELSE
                  LET option == currentNode.options[optionIndex + 1]
                      said == addLog(s, <<"you say", ToString(optionIndex)>>, "dialogue")
                  IN  IF Has(option, "requiresCheck")
                      THEN resolveCheck(said, npcId, option)
                      ELSE <<followOption(said, npcId, option)>>

\* handleTake, without the weight check
handleTakeAnyWeight(s, itemId) ==
    IF s.combat.active THEN addLog(s, <<"cannot take in combat">>, "warning")
    ELSE
      LET location == s.locations[s.currentLocationId]
          itemIndex == FindIndex(location.items, LAMBDA i : i.id = itemId)
      IN  IF itemIndex = 0 THEN addLog(s, <<"item is not here">>, "warning")
          ELSE
            LET item == location.items[itemIndex]
                newWeight == Plus(s.character.inventory.currentWeight, Pounds(item.weight))
            IN  addLog(
                  [s EXCEPT
                     !.locations[s.currentLocationId].items = RemoveAt(@, itemIndex),
                     !.character.inventory.items = Append(@, item),
                     !.character.inventory.currentWeight = newWeight],
                  <<"you pick up", item.id>>, "success")

handleTake(s, itemId) ==
    IF s.combat.active THEN addLog(s, <<"cannot take in combat">>, "warning")
    ELSE
      LET location == s.locations[s.currentLocationId]
          itemIndex == FindIndex(location.items, LAMBDA i : i.id = itemId)
      IN  IF itemIndex = 0 THEN addLog(s, <<"item is not here">>, "warning")
          ELSE
            LET item == location.items[itemIndex]
                newWeight == Plus(s.character.inventory.currentWeight, Pounds(item.weight))
            IN  IF newWeight > s.character.inventory.maxWeight
                THEN addLog(s, <<"cannot carry", item.id>>, "warning")
                ELSE addLog(
                       [s EXCEPT
                          !.locations[s.currentLocationId].items = RemoveAt(@, itemIndex),
                          !.character.inventory.items = Append(@, item),
                          !.character.inventory.currentWeight = newWeight],
                       <<"you pick up", item.id>>, "success")

\* handleDrop, without the check for combat
handleDropInCombat(s, itemId) ==
    LET itemIndex == FindIndex(s.character.inventory.items, LAMBDA i : i.id = itemId)
    IN  IF itemIndex = 0 THEN addLog(s, <<"you do not have that item">>, "warning")
        ELSE
          LET item == s.character.inventory.items[itemIndex]
          IN  addLog(
                [s EXCEPT
                   !.character.inventory.items = RemoveAt(@, itemIndex),
                   !.character.inventory.currentWeight = Minus(@, Pounds(item.weight)),
                   !.locations[s.currentLocationId].items = Append(@, item)],
                <<"you drop", item.id>>, "info")

\* handleDrop, the item left in the inventory as well
handleDropLeavingACopy(s, itemId) ==
    IF s.combat.active THEN addLog(s, <<"cannot drop in combat">>, "warning")
    ELSE
      LET itemIndex == FindIndex(s.character.inventory.items, LAMBDA i : i.id = itemId)
      IN  IF itemIndex = 0 THEN addLog(s, <<"you do not have that item">>, "warning")
          ELSE
            LET item == s.character.inventory.items[itemIndex]
            IN  addLog(
                  [s EXCEPT
                     !.character.inventory.currentWeight = Minus(@, Pounds(item.weight)),
                     !.locations[s.currentLocationId].items = Append(@, item)],
                  <<"you drop", item.id>>, "info")

handleDrop(s, itemId) ==
    IF s.combat.active THEN addLog(s, <<"cannot drop in combat">>, "warning")
    ELSE
      LET itemIndex == FindIndex(s.character.inventory.items, LAMBDA i : i.id = itemId)
      IN  IF itemIndex = 0 THEN addLog(s, <<"you do not have that item">>, "warning")
          ELSE
            LET item == s.character.inventory.items[itemIndex]
            IN  addLog(
                  [s EXCEPT
                     !.character.inventory.items = RemoveAt(@, itemIndex),
                     !.character.inventory.currentWeight = Minus(@, Pounds(item.weight)),
                     !.locations[s.currentLocationId].items = Append(@, item)],
                  <<"you drop", item.id>>, "info")

\* handleUse, the use of an item taking the turn of the character in a fight
handleUseTakesTheTurn(s, itemId) ==
    LET itemIndex == FindIndex(s.character.inventory.items, LAMBDA i : i.id = itemId)
        Turn(used) ==
          IF used.combat.active
          THEN runEnemyTurns([used EXCEPT !.combat = nextTurn(@)])
          ELSE <<used>>
    IN  IF itemIndex = 0 THEN <<addLog(s, <<"you do not have that item">>, "warning")>>
        ELSE
          LET item == s.character.inventory.items[itemIndex]
          IN  IF ~item.usable THEN <<addLog(s, <<"cannot use", item.id>>, "warning")>>
              ELSE IF item.type = "potion"
              THEN LET Heal(healAmount) ==
                         LET healedCharacter == healCharacter(s.character, healAmount)
                             updatedCharacter ==
                               [healedCharacter EXCEPT
                                  !.inventory.items = RemoveAt(@, itemIndex),
                                  !.inventory.currentWeight = Minus(@, Pounds(item.weight))]
                         IN  Turn(addLog([s EXCEPT !.character = updatedCharacter],
                                         <<"you use and recover", item.id>>, "success"))
                   IN  ForEach({r1 + r2 + 2 : r1 \in rollDice(4), r2 \in rollDice(4)}, Heal)
              ELSE Turn(addLog(s, <<"nothing special happens", item.id>>, "info"))

handleUse(s, itemId) ==
    LET itemIndex == FindIndex(s.character.inventory.items, LAMBDA i : i.id = itemId)
    IN  IF itemIndex = 0 THEN <<addLog(s, <<"you do not have that item">>, "warning")>>
        ELSE
          LET item == s.character.inventory.items[itemIndex]
          IN  IF ~item.usable THEN <<addLog(s, <<"cannot use", item.id>>, "warning")>>
              ELSE IF item.type = "potion"
              THEN LET Heal(healAmount) ==
                         LET healedCharacter == healCharacter(s.character, healAmount)
                             updatedCharacter ==
                               [healedCharacter EXCEPT
                                  !.inventory.items = RemoveAt(@, itemIndex),
                                  !.inventory.currentWeight = Minus(@, Pounds(item.weight))]
                         IN  <<addLog([s EXCEPT !.character = updatedCharacter],
                                      <<"you use and recover", item.id>>, "success")>>
                   IN  ForEach({r1 + r2 + 2 : r1 \in rollDice(4), r2 \in rollDice(4)}, Heal)
              ELSE <<addLog(s, <<"nothing special happens", item.id>>, "info")>>

handleBuy(s, itemId, npcId) ==
    IF s.combat.active THEN addLog(s, <<"cannot buy in combat">>, "warning")
    ELSE IF ~(npcId \in DOMAIN s.npcs /\ Has(s.npcs[npcId], "shop"))
    THEN addLog(s, <<"has no shop">>, "warning")
    ELSE
      LET npc == s.npcs[npcId]
          itemIndex == FindIndex(npc.shop.items, LAMBDA i : i.id = itemId)
      IN  IF itemIndex = 0 THEN addLog(s, <<"not for sale">>, "warning")
          ELSE
            LET item == npc.shop.items[itemIndex]
                price == CeilDiv(item.value * npc.shop.buyMultiplier, 10)
                newWeight == Plus(s.character.inventory.currentWeight, Pounds(item.weight))
            IN  IF s.character.gold < price
                THEN addLog(s, <<"cannot afford", item.id>>, "warning")
                ELSE IF newWeight > s.character.inventory.maxWeight
                THEN addLog(s, <<"too heavy", item.id>>, "warning")
                ELSE addLog(
                       [s EXCEPT
                          !.npcs[npcId].shop.items = RemoveAt(@, itemIndex),
                          !.character.gold = @ - price,
                          !.character.inventory.items = Append(@, item),
                          !.character.inventory.currentWeight = newWeight],
                       <<"you buy", item.id>>, "success")

handleSell(s, itemId, npcId) ==
    IF s.combat.active THEN addLog(s, <<"cannot sell in combat">>, "warning")
    ELSE IF ~(npcId \in DOMAIN s.npcs /\ Has(s.npcs[npcId], "shop"))
    THEN addLog(s, <<"does not buy items">>, "warning")
    ELSE
      LET npc == s.npcs[npcId]
          itemIndex == FindIndex(s.character.inventory.items, LAMBDA i : i.id = itemId)
      IN  IF itemIndex = 0 THEN addLog(s, <<"you do not have that item">>, "warning")
          ELSE
            LET item == s.character.inventory.items[itemIndex]
                price == FloorDiv(item.value * npc.shop.sellMultiplier, 10)
            IN  addLog(
                  [s EXCEPT
                     !.npcs[npcId].shop.items = Append(@, item),
                     !.character.gold = @ + price,
                     !.character.inventory.items = RemoveAt(@, itemIndex),
                     !.character.inventory.currentWeight = Minus(@, Pounds(item.weight))],
                  <<"you sell", item.id>>, "success")

\* handleRest, in whatever place
handleRestAnywhere(s) ==
    IF s.combat.active THEN addLog(s, <<"cannot rest in combat">>, "warning")
    ELSE IF s.character.hitPoints.current >= s.character.hitPoints.max
    THEN addLog(s, <<"already at full health">>, "info")
    ELSE addLog([s EXCEPT !.character = healCharacter(@, s.character.hitPoints.max)],
                <<"you rest">>, "success")

\* handleRest: refused in combat and outside the places of rest; the
\* character below the maximum is healed by the maximum
handleRest(s) ==
    IF s.combat.active THEN addLog(s, <<"cannot rest in combat">>, "warning")
    ELSE IF s.currentLocationId \notin REST_LOCATIONS
    THEN addLog(s, <<"not a safe place">>, "warning")
    ELSE IF s.character.hitPoints.current >= s.character.hitPoints.max
    THEN addLog(s, <<"already at full health">>, "info")
    ELSE addLog([s EXCEPT !.character = healCharacter(@, s.character.hitPoints.max)],
                <<"you rest">>, "success")

handleLook(s) ==
    IF s.currentLocationId \notin DOMAIN s.locations
    THEN addLog(s, <<"you see nothing">>, "info")
    ELSE
      LET location == s.locations[s.currentLocationId]
          npcsHere == SelectSeq(location.npcs, LAMBDA id : id \in DOMAIN s.npcs)
          s1 == addLog(addLog(s, <<"name", location.id>>, "info"),
                       <<"description", location.id>>, "info")
          s2 == IF getAvailableDirections(location) # {}
                THEN addLog(s1, <<"exits">>, "info") ELSE s1
          s3 == IF Len(location.items) > 0
                THEN addLog(s2, <<"on the ground">>, "info") ELSE s2
      IN  IF Len(npcsHere) > 0 THEN addLog(s3, <<"present">>, "info") ELSE s3

handleInventory(s) ==
    LET inv == s.character.inventory
    IN  IF Len(inv.items) = 0 THEN addLog(s, <<"inventory is empty">>, "info")
        ELSE addLog(addLogs(addLog(s, <<"inventory">>, "info"),
                            [k \in 1..Len(inv.items) |-> <<"item", inv.items[k].id>>], "info"),
                    <<"gold">>, "info")

\* handleStats that takes the turn of the player in a fight
handleStatsTakesTheTurn(s) ==
    LET logged == addLogs(s, << <<"name">>, <<"level">>, <<"hp ac gold">>,
                               <<"str dex con">>, <<"int wis cha">> >>, "info")
    IN  IF s.combat.active THEN [logged EXCEPT !.combat = nextTurn(@)] ELSE logged

handleStats(s) ==
    addLogs(s, << <<"name">>, <<"level">>, <<"hp ac gold">>,
                  <<"str dex con">>, <<"int wis cha">> >>, "info")

\* The switch of processAction
dispatch(s, action) ==
    CASE action.type = "MOVE" -> handleMove(s, action.direction)
      [] action.type = "TALK" -> <<handleTalk(s, action.npcId)>>
      [] action.type = "DIALOGUE_SELECT" -> handleDialogueSelect(s, action.optionIndex)
      [] action.type = "TAKE" -> <<handleTake(s, action.itemId)>>
      [] action.type = "DROP" -> <<handleDrop(s, action.itemId)>>
      [] action.type = "USE" -> handleUse(s, action.itemId)
      [] action.type = "ATTACK" -> handleAttack(s, action.targetId)
      [] action.type = "DEFEND" -> handleDefend(s)
      [] action.type = "FLEE" -> handleFlee(s)
      [] action.type = "BUY" -> <<handleBuy(s, action.itemId, action.npcId)>>
      [] action.type = "SELL" -> <<handleSell(s, action.itemId, action.npcId)>>
      [] action.type = "REST" -> <<handleRest(s)>>
      [] action.type = "LOOK" -> <<handleLook(s)>>
      [] action.type = "INVENTORY" -> <<handleInventory(s)>>
      [] action.type = "STATS" -> <<handleStats(s)>>
      [] action.type = "SAVE_GAME" -> <<addLog(s, <<"game saved">>, "success")>>
      [] action.type = "LOAD_GAME" -> <<addLog(s, <<"game loaded">>, "success")>>

\* processAction, without the check that the character is alive
processActionOfTheDead(s, action) == dispatch(s, action)

\* processAction: the states the reducer can return for the action
processAction(s, action) ==
    IF ~isAlive(s.character) /\ action.type # "LOAD_GAME"
    THEN <<addLog(s, <<"you are dead">>, "error")>>
    ELSE dispatch(s, action)

\* initializeGame, the starting location not marked as visited
initializeGameUnvisited(c) ==
    [character |-> c,
     currentLocationId |-> "village-square",
     locations |-> initializeLocations,
     npcs |-> initializeNPCs,
     quests |-> <<>>,
     combat |-> InactiveCombat,
     activeDialogue |-> Null,
     gameLog |-> <<createLogEntry(<<"a new adventure begins">>, "success"),
                   createLogEntry(<<"description", "village-square">>, "info")>>]

\* initializeGame, for the character createRandomCharacter made
initializeGame(c) ==
    [character |-> c,
     currentLocationId |-> "village-square",
     locations |-> [initializeLocations EXCEPT !["village-square"].visited = TRUE],
     npcs |-> initializeNPCs,
     quests |-> <<>>,
     combat |-> InactiveCombat,
     activeDialogue |-> Null,
     gameLog |-> <<createLogEntry(<<"a new adventure begins">>, "success"),
                   createLogEntry(<<"description", "village-square">>, "info")>>]

----------------------------------------------------------------------------
(* The command line (command-parser.ts): parseCommand and handleCommand.   *)
(* A command is the list of the words normalize leaves of the input: the   *)
(* input trimmed, in lower case, split at the white space.  A name fragment *)
(* is a list of words too; the ids typed contain no space and the other    *)
(* words typed occur in no name, so a fragment finds what has it as its id *)

\* The words that /^\d+$/ matches and parseInt reads, up to 9
Numerals == {ToString(n) : n \in 0..9}

parseInt(word) == CHOOSE n \in 0..9 : ToString(n) = word

Ok(action) == [ok |-> TRUE, action |-> action]

Error(error) == [ok |-> FALSE, error |-> error]

findNpcId(nameFragment, s) ==
    IF s.currentLocationId \notin DOMAIN s.locations THEN Undefined
    ELSE IF /\ Len(nameFragment) = 1
            /\ nameFragment[1] \in Range(s.locations[s.currentLocationId].npcs)
    THEN nameFragment[1]
    ELSE Undefined

\* The id of the first of the items whose id the fragment is
FindItemId(items, nameFragment) ==
    LET matching == {i \in 1..Len(items) : <<items[i].id>> = nameFragment}
    IN  IF matching = {} THEN Undefined
        ELSE items[CHOOSE i \in matching : \A j \in matching : i <= j].id

findLocationItemId(nameFragment, s) ==
    IF s.currentLocationId \notin DOMAIN s.locations THEN Undefined
    ELSE FindItemId(s.locations[s.currentLocationId].items, nameFragment)

findInventoryItemId(nameFragment, s) ==
    FindItemId(s.character.inventory.items, nameFragment)

findEnemyId(nameFragment, s) ==
    IF ~s.combat.active THEN Undefined
    ELSE FindItemId(s.combat.enemies, nameFragment)

DIRECTION_ALIASES ==
    "n" :> "north" @@ "s" :> "south" @@ "e" :> "east" @@ "w" :> "west"
      @@ "u" :> "up" @@ "d" :> "down"

VALID_DIRECTIONS == {"north", "south", "east", "west", "up", "down"}

\* The first NPC of the location that keeps a shop
ShopNpcId(s) ==
    LET listed == IF s.currentLocationId \in DOMAIN s.locations
                  THEN s.locations[s.currentLocationId].npcs ELSE <<>>
        keepers == {i \in 1..Len(listed) :
                      listed[i] \in DOMAIN s.npcs /\ Has(s.npcs[listed[i]], "shop")}
    IN  IF keepers = {} THEN Undefined
        ELSE listed[CHOOSE i \in keepers : \A j \in keepers : i <= j]

\* rest.match(/^(.+?)\s+from\s+(.+)$/): the place of the first such word
\* that has words before and after it, 0 when there is none
SplitAt(rest, word) ==
    LET places == {k \in 2..(Len(rest) - 1) : rest[k] = word}
    IN  IF places = {} THEN 0 ELSE CHOOSE k \in places : \A j \in places : k <= j

\* The buy branch of parseCommand
parseBuy(rest, s) ==
    LET k == SplitAt(rest, "from")
        npcId == IF k > 0 THEN findNpcId(SubSeq(rest, k + 1, Len(rest)), s)
                 ELSE ShopNpcId(s)
        itemName == IF k > 0 THEN SubSeq(rest, 1, k - 1) ELSE rest
    IN  IF rest = <<>> THEN Error(<<"buy what">>)
        ELSE IF npcId = Undefined
        THEN IF k > 0 THEN Error(<<"no one to buy from">> \o SubSeq(rest, k + 1, Len(rest)))
             ELSE Error(<<"no one here to buy from">>)
        ELSE IF ~(npcId \in DOMAIN s.npcs /\ Has(s.npcs[npcId], "shop"))
        THEN IF k > 0 THEN Error(<<"sells nothing", npcId>>)
             ELSE Error(<<"not available">> \o itemName)
        ELSE IF FindItemId(s.npcs[npcId].shop.items, itemName) = Undefined
        THEN Error(<<"not available">> \o itemName)
        ELSE Ok([type |-> "BUY",
                 itemId |-> FindItemId(s.npcs[npcId].shop.items, itemName),
                 npcId |-> npcId])

\* The sell branch of parseCommand
parseSell(rest, s) ==
    LET k == SplitAt(rest, "to")
        npcId == IF k > 0 THEN findNpcId(SubSeq(rest, k + 1, Len(rest)), s)
                 ELSE ShopNpcId(s)
        itemName == IF k > 0 THEN SubSeq(rest, 1, k - 1) ELSE rest
        itemId == findInventoryItemId(itemName, s)
    IN  IF rest = <<>> THEN Error(<<"sell what">>)
        ELSE IF npcId = Undefined
        THEN IF k > 0 THEN Error(<<"no one to sell to">> \o SubSeq(rest, k + 1, Len(rest)))
             ELSE Error(<<"no one here to sell to">>)
        ELSE IF itemId = Undefined THEN Error(<<"you do not have">> \o itemName)
        ELSE Ok([type |-> "SELL", itemId |-> itemId, npcId |-> npcId])

\* The attack branch of parseCommand
parseAttack(rest, s) ==
    IF s.combat.active
    THEN IF rest = <<>>
         THEN IF Len(s.combat.enemies) > 0
              THEN Ok([type |-> "ATTACK", targetId |-> s.combat.enemies[1].id])
              ELSE Error(<<"no enemies to attack">>)
         ELSE IF findEnemyId(rest, s) = Undefined
         THEN Error(<<"no enemy called">> \o rest)
         ELSE Ok([type |-> "ATTACK", targetId |-> findEnemyId(rest, s)])
    ELSE IF rest = <<>> THEN Error(<<"attack whom">>)
         ELSE IF findNpcId(rest, s) = Undefined
         THEN Error(<<"no one to attack">> \o rest)
         ELSE Ok([type |-> "ATTACK", targetId |-> findNpcId(rest, s)])

\* The commands of parseCommand that begin with a verb
parseVerb(verb, rest, s) ==
    IF verb \in DOMAIN DIRECTION_ALIASES
    THEN Ok([type |-> "MOVE", direction |-> DIRECTION_ALIASES[verb]])
    ELSE IF verb \in VALID_DIRECTIONS /\ rest = <<>>
    THEN Ok([type |-> "MOVE", direction |-> verb])
    ELSE IF verb \in {"go", "move", "walk"}
    THEN IF rest = <<>> THEN Error(<<"go where">>)
         ELSE IF Len(rest) = 1 /\ rest[1] \in DOMAIN DIRECTION_ALIASES
         THEN Ok([type |-> "MOVE", direction |-> DIRECTION_ALIASES[rest[1]]])
         ELSE IF Len(rest) = 1 /\ rest[1] \in VALID_DIRECTIONS
         THEN Ok([type |-> "MOVE", direction |-> rest[1]])
         ELSE Error(<<"not a valid direction">> \o rest)
    ELSE IF verb \in {"talk", "speak", "chat"}
    THEN LET target == IF Len(rest) >= 2 /\ rest[1] \in {"to", "with"}
                       THEN Tail(rest) ELSE rest
         IN  IF target = <<>> THEN Error(<<"talk to whom">>)
             ELSE IF findNpcId(target, s) = Undefined
             THEN Error(<<"no one called">> \o target)
             ELSE Ok([type |-> "TALK", npcId |-> findNpcId(target, s)])
    ELSE IF verb \in {"take", "get", "grab", "pickup"}
    THEN IF rest = <<>> THEN Error(<<"take what">>)
         ELSE IF findLocationItemId(rest, s) = Undefined
         THEN Error(<<"nothing here to take">> \o rest)
         ELSE Ok([type |-> "TAKE", itemId |-> findLocationItemId(rest, s)])
    ELSE IF verb = "pick" /\ rest # <<>> /\ rest[1] = "up"
    THEN IF Tail(rest) = <<>> THEN Error(<<"pick up what">>)
         ELSE IF findLocationItemId(Tail(rest), s) = Undefined
         THEN Error(<<"nothing here to pick up">> \o Tail(rest))
         ELSE Ok([type |-> "TAKE", itemId |-> findLocationItemId(Tail(rest), s)])
    ELSE IF verb = "drop"
    THEN IF rest = <<>> THEN Error(<<"drop what">>)
         ELSE IF findInventoryItemId(rest, s) = Undefined
         THEN Error(<<"you do not have">> \o rest)
         ELSE Ok([type |-> "DROP", itemId |-> findInventoryItemId(rest, s)])
    ELSE IF verb \in {"use", "drink", "eat", "consume", "quaff"}
    THEN IF rest = <<>> THEN Error(<<"use what">>)
         ELSE IF findInventoryItemId(rest, s) = Undefined
         THEN Error(<<"you do not have">> \o rest)
         ELSE Ok([type |-> "USE", itemId |-> findInventoryItemId(rest, s)])
    ELSE IF verb \in {"attack", "hit", "fight", "kill", "strike"}
    THEN parseAttack(rest, s)
    ELSE IF verb \in {"defend", "block", "parry", "guard"} THEN Ok([type |-> "DEFEND"])
    ELSE IF verb \in {"flee", "run", "escape", "retreat"} THEN Ok([type |-> "FLEE"])
    ELSE IF verb \in {"buy", "purchase"} THEN parseBuy(rest, s)
    ELSE IF verb = "sell" THEN parseSell(rest, s)
    ELSE IF verb \in {"rest", "sleep", "camp"} THEN Ok([type |-> "REST"])
    ELSE IF verb \in {"look", "examine", "inspect", "l"} THEN Ok([type |-> "LOOK"])
    ELSE IF verb \in {"inventory", "items", "i"} THEN Ok([type |-> "INVENTORY"])
    ELSE IF verb \in {"stats", "character", "status", "char"} THEN Ok([type |-> "STATS"])
    ELSE IF verb = "save" THEN Ok([type |-> "SAVE_GAME"])
    ELSE IF verb \in {"help", "?"} THEN Error(<<"commands">>)
    ELSE Error(<<"unknown command">> \o <<verb>> \o rest)

\* parseCommand: the action a command means, or the error it is refused with
parseCommand(input, s) ==
    IF input = <<>> THEN Error(<<"enter a command">>)
    ELSE IF /\ s.activeDialogue # Null
            /\ Len(input) = 1 /\ input[1] \in Numerals
    THEN Ok([type |-> "DIALOGUE_SELECT", optionIndex |-> parseInt(input[1]) - 1])
    ELSE IF /\ s.activeDialogue # Null
            /\ Len(input) = 2 /\ input[2] \in Numerals
            /\ input[1] \in {"reply", "choose", "select", "say", "option", "pick"}
    THEN Ok([type |-> "DIALOGUE_SELECT", optionIndex |-> parseInt(input[2]) - 1])
    ELSE IF /\ s.activeDialogue # Null
            /\ Len(input) = 1
            /\ input[1] \in {"leave", "bye", "goodbye", "exit", "back"}
    THEN Ok([type |-> "DIALOGUE_SELECT", optionIndex |-> -1])
    ELSE parseVerb(Head(input), Tail(input), s)

\* handleCommand, a parse error silently dropped
handleCommandDroppingErrors(s, input) ==
    LET result == parseCommand(input, s)
    IN  IF ~result.ok THEN <<s>>
        ELSE processAction(s, result.action)

\* handleCommand: a parse error is appended to the log, an action goes
\* through processAction
handleCommand(s, input) ==
    LET result == parseCommand(input, s)
    IN  IF ~result.ok
        THEN <<[s EXCEPT !.gameLog = Append(@, [message |-> result.error, type |-> "error"])]>>
        ELSE processAction(s, result.action)

----------------------------------------------------------------------------
(* The state machine: one game, from initializeGame, one action per call   *)
(* of processAction                                                        *)

\* Calls are made while the log is shorter than this
MaxLogLen == 5

\* The number of calls of processAction in a behaviour
MaxCalls == 2

\* The classes and ability scores of the characters of Init
InitClasses == {"wizard"}

StrongScores ==
    [strength |-> 16, dexterity |-> 14, constitution |-> 14,
     intelligence |-> 10, wisdom |-> 10, charisma |-> 10]

WeakScores ==
    [strength |-> 8, dexterity |-> 7, constitution |-> 6,
     intelligence |-> 10, wisdom |-> 10, charisma |-> 10]

InitScores == {WeakScores}

\* The arguments the actions are called with
Directions == {"north", "south", "down"}

NpcArgs == {"village-guard", "skeleton-warrior", "nobody"}

\* Items on the ground of some location, and one that lies nowhere
TakeArgs == {"forest-stick", "ancient-key"}

\* Items of the starting equipment, and one the character does not hold
HeldArgs == {"wizard-potion", "wizard-staff", "forest-stick"}

\* <<itemId, npcId>>: light, heavy, too dear, not for sale, not a merchant
BuyArgs == {<<"shop-torch", "shopkeeper">>, <<"shop-longsword", "shopkeeper">>,
            <<"shop-healing-potion", "shopkeeper">>, <<"forest-stick", "shopkeeper">>,
            <<"shop-torch", "village-guard">>}

\* <<itemId, npcId>>: held, not held, not a merchant
SellArgs == {<<"wizard-potion", "shopkeeper">>, <<"forest-stick", "shopkeeper">>,
             <<"shop-longsword", "shopkeeper">>, <<"wizard-potion", "village-guard">>}

OptionArgs == {-2, -1, 0, 1, 2, 3}

\* The numbers typed as a command
NumberArgs == {0, 1, 3, 4}

GameState ==
    [character |-> character, currentLocationId |-> currentLocationId,
     locations |-> locations, npcs |-> npcs, quests |-> quests, combat |-> combat,
     activeDialogue |-> activeDialogue, gameLog |-> gameLog]

Becomes(s) ==
    /\ character' = s.character
    /\ currentLocationId' = s.currentLocationId
    /\ locations' = s.locations
    /\ npcs' = s.npcs
    /\ quests' = s.quests
    /\ combat' = s.combat
    /\ activeDialogue' = s.activeDialogue
    /\ gameLog' = s.gameLog

Starts(s) ==
    /\ character = s.character
    /\ currentLocationId = s.currentLocationId
    /\ locations = s.locations
    /\ npcs = s.npcs
    /\ quests = s.quests
    /\ combat = s.combat
    /\ activeDialogue = s.activeDialogue
    /\ gameLog = s.gameLog
    /\ lastAction = [type |-> "NONE"]
    /\ calls = 0

Init ==
    \E className \in InitClasses, scores \in InitScores :
      Starts(initializeGame(createCharacter(className, scores)))

\* handleCommand: the new state is processAction(state, action)
Call(s, action) ==
    /\ Len(gameLog) < MaxLogLen
    /\ calls < MaxCalls
    /\ \E next \in Range(processAction(s, action)) : Becomes(next)
    /\ lastAction' = action
    /\ calls' = calls + 1

\* handleCommand: the new state is the one it sets for the words typed
Command(s, input, typed) ==
    /\ Len(gameLog) < MaxLogLen
    /\ calls < MaxCalls
    /\ \E next \in Range(handleCommand(s, input)) : Becomes(next)
    /\ lastAction' = typed
    /\ calls' = calls + 1

\* A number typed: its digits are the one word of the command
TypeNumber ==
    \E input \in NumberArgs :
      Command(GameState, <<ToString(input)>>, [type |-> "COMMAND", input |-> input])

Move == \E direction \in Directions : Call(GameState, [type |-> "MOVE", direction |-> direction])

Talk == \E npcId \in NpcArgs : Call(GameState, [type |-> "TALK", npcId |-> npcId])

DialogueSelect ==
    \E optionIndex \in OptionArgs :
      Call(GameState, [type |-> "DIALOGUE_SELECT", optionIndex |-> optionIndex])

Take == \E itemId \in TakeArgs : Call(GameState, [type |-> "TAKE", itemId |-> itemId])

Drop == \E itemId \in HeldArgs : Call(GameState, [type |-> "DROP", itemId |-> itemId])

Use == \E itemId \in HeldArgs : Call(GameState, [type |-> "USE", itemId |-> itemId])

Attack == \E targetId \in NpcArgs : Call(GameState, [type |-> "ATTACK", targetId |-> targetId])

Defend == Call(GameState, [type |-> "DEFEND"])

Flee == Call(GameState, [type |-> "FLEE"])

Buy == \E arg \in BuyArgs :
         Call(GameState, [type |-> "BUY", itemId |-> arg[1], npcId |-> arg[2]])

Sell == \E arg \in SellArgs :
          Call(GameState, [type |-> "SELL", itemId |-> arg[1], npcId |-> arg[2]])

Rest == Call(GameState, [type |-> "REST"])

Look == Call(GameState, [type |-> "LOOK"])

Inventory == Call(GameState, [type |-> "INVENTORY"])

Stats == Call(GameState, [type |-> "STATS"])

SaveGame == Call(GameState, [type |-> "SAVE_GAME"])

LoadGame == Call(GameState, [type |-> "LOAD_GAME", saveId |-> "save"])

Next ==
    \/ Move \/ Talk \/ DialogueSelect \/ Take \/ Drop \/ Use
    \/ Attack \/ Defend \/ Flee \/ Buy \/ Sell \/ Rest
    \/ Look \/ Inventory \/ Stats \/ SaveGame \/ LoadGame
    \/ TypeNumber

Spec == Init /\ [][Next]_vars

\* A game of a strong fighter, who may win a fight with one blow
InitStrong == Starts(initializeGame(createCharacter("fighter", StrongScores)))

SpecStrong == InitStrong /\ [][Next]_vars

----------------------------------------------------------------------------
(* processAction on game states that lie further into a game than MaxCalls *)
(* calls from initializeGame: a character carrying a heavy load, fights    *)
(* against two enemies, a fallen character                                 *)

NewGame == initializeGame(createCharacter("wizard", WeakScores))

\* On the forest path, with free tenths of a pound left to carry
LadenGame(free) ==
    LET inventory == NewGame.character.inventory
        load == Item("load", (inventory.maxWeight - inventory.currentWeight) \div Grain - free,
                     0, "misc", FALSE)
    IN  [NewGame EXCEPT
           !.character.inventory.items = Append(@, load),
           !.character.inventory.currentWeight = Plus(@, Pounds(load.weight)),
           !.currentLocationId = "forest-path",
           !.locations["forest-path"].visited = TRUE]

\* In the ruins' dungeon, the player left with 2 hit points in the second
\* round of a fight that began against the enemies started; the log ends
\* with the blows of the first round
FightGame(started, enemies, turnOrder) ==
    [NewGame EXCEPT
       !.gameLog = @ \o <<createLogEntry(<<"character", "skeleton-warrior", "hit">>, "combat"),
                          createLogEntry(<<"enemy", "skeleton-warrior", "hit">>, "combat")>>,
       !.character.hitPoints.current = 2,
       !.currentLocationId = "ruins-dungeon",
       !.locations["ruins-dungeon"].visited = TRUE,
       !.combat = [active |-> TRUE,
                   enemies |-> enemies,
                   enemyMaxHPs |-> [id \in started |-> NewGame.npcs[id].stats.hitPoints],
                   totalEnemyCount |-> Cardinality(started),
                   turnOrder |-> turnOrder,
                   currentTurnIndex |-> 0,
                   round |-> 2]]

\* The skeleton warrior, left with 1 hit point
WoundedSkeleton == [NewGame.npcs["skeleton-warrior"] EXCEPT !.stats.hitPoints = 1]

\* A fight against the skeleton warrior alone
DuelGame ==
    FightGame({"skeleton-warrior"}, <<WoundedSkeleton>>, <<PlayerId, "skeleton-warrior">>)

\* Of the skeleton warrior and the dungeon boss, the boss is defeated
LastEnemyGame ==
    FightGame({"skeleton-warrior", "dungeon-boss"}, <<WoundedSkeleton>>,
              <<PlayerId, "skeleton-warrior">>)

\* The skeleton warrior and the dungeon boss both stand
LastStandGame ==
    FightGame({"skeleton-warrior", "dungeon-boss"},
              <<NewGame.npcs["skeleton-warrior"], NewGame.npcs["dungeon-boss"]>>,
              <<PlayerId, "skeleton-warrior", "dungeon-boss">>)

\* A dialogue made to try every way a choice can go: an ability check with
\* a callback, a link to a node that is missing, a link to a node without
\* options, a callback without a link, a link alone, a check alone
TrialDialogue ==
    <<Node("greeting", <<
        [requiresCheck |-> [ability |-> "strength", dc |-> 10],
         action |-> "listSellable", nextNodeId |-> "trial"],
        [nextNodeId |-> "missing"],
        [nextNodeId |-> "silent"]>>),
      Node("trial", <<
        [action |-> "listSellable"],
        [nextNodeId |-> "greeting"],
        [requiresCheck |-> [ability |-> "charisma", dc |-> 20]]>>),
      Node("silent", <<>>)>>

\* The start nodes of the parleys
ParleyNodes == {"greeting", "trial"}

\* In a conversation with the village guard, who speaks the trial dialogue;
\* the log ends with the guard's line and the options
ParleyGame(nodeId) ==
    [NewGame EXCEPT
       !.npcs["village-guard"].dialogue = TrialDialogue,
       !.activeDialogue = [npcId |-> "village-guard", currentNodeId |-> nodeId],
       !.gameLog = @ \o <<createLogEntry(<<"npc says", "village-guard", nodeId>>, "dialogue"),
                          createLogEntry(<<"options">>, "dialogue")>>]

\* The character has fallen in a fight
FallenGame ==
    addLog([NewGame EXCEPT !.character.hitPoints.current = 0],
           <<"has fallen">>, "error")

\* The free weights of the laden games
FreeWeights == {10}

Scenarios ==
    {LadenGame(free) : free \in FreeWeights}
      \cup {ParleyGame(nodeId) : nodeId \in ParleyNodes}
      \cup {DuelGame, LastEnemyGame, LastStandGame, FallenGame}

InitScenario == \E s \in Scenarios : Starts(s)

SpecScenario == InitScenario /\ [][Next]_vars

\* The new game and the games above, each with one call of processAction
\* left to make
InitLastCall ==
    \E s \in {NewGame} \cup Scenarios :
      /\ character = s.character
      /\ currentLocationId = s.currentLocationId
      /\ locations = s.locations
      /\ npcs = s.npcs
      /\ quests = s.quests
      /\ combat = s.combat
      /\ activeDialogue = s.activeDialogue
      /\ gameLog = s.gameLog
      /\ lastAction = [type |-> "NONE"]
      /\ calls = MaxCalls - 1

SpecLastCall == InitLastCall /\ [][Next]_vars

----------------------------------------------------------------------------
(* processAction on games whose village guard has a dialogue of one or two *)
(* nodes, in either order, for the choice of the start node                *)

\* The ids of the nodes: the three a conversation starts at, and another
StartIds == {"greeting", "encounter", "combat", "rumour"}

\* A node with one option that ends the conversation
Line(id) == Node(id, <<TextOnly>>)

\* The dialogues: two nodes of different ids, or the one node no
\* conversation starts at
StartLists ==
    {<<Line(pair[1]), Line(pair[2])>> :
       pair \in {p \in StartIds \X StartIds : p[1] # p[2]}}
      \cup {<<Line("rumour")>>}

StartGame(dialogue) == [NewGame EXCEPT !.npcs["village-guard"].dialogue = dialogue]

InitStart == \E dialogue \in StartLists : Starts(StartGame(dialogue))

SpecStart == InitStart /\ [][Next]_vars

----------------------------------------------------------------------------
(* processAction at the entrance of the ruins, three moves south of the    *)
(* village square, where the ancient key of 0.2 pounds lies                *)

RuinsGame ==
    [NewGame EXCEPT
       !.currentLocationId = "ancient-ruins-entrance",
       !.locations["forest-path"].visited = TRUE,
       !.locations["deep-forest"].visited = TRUE,
       !.locations["ancient-ruins-entrance"].visited = TRUE]

InitRuins == Starts(RuinsGame)

SpecRuins == InitRuins /\ [][Next]_vars

\* The same, above a dungeon whose list of NPCs names both hostile NPCs,
\* with the guardian between them
CryptGame ==
    [RuinsGame EXCEPT
       !.locations["ruins-dungeon"].npcs =
          <<"skeleton-warrior", "ruins-guardian", "dungeon-boss">>]

\* The same, in conversation with the guardian of the entrance
GuardedGame ==
    [CryptGame EXCEPT
       !.activeDialogue = [npcId |-> "ruins-guardian", currentNodeId |-> "greeting"]]

\* The last call of a game that came to the ruins
InitCrypt ==
    \E s \in {RuinsGame, CryptGame, GuardedGame} :
      /\ character = s.character
      /\ currentLocationId = s.currentLocationId
      /\ locations = s.locations
      /\ npcs = s.npcs
      /\ quests = s.quests
      /\ combat = s.combat
      /\ activeDialogue = s.activeDialogue
      /\ gameLog = s.gameLog
      /\ lastAction = [type |-> "MOVE", direction |-> "south"]
      /\ calls = MaxCalls - 1

SpecCrypt == InitCrypt /\ [][Next]_vars

----------------------------------------------------------------------------
(* The functions of character.ts and combat.ts called on their own: a      *)
(* behaviour is one call of a function on a character of InitCalls, or a   *)
(* series of awards to that character.  lastAction tells the call and what *)
(* it returned beside the character and the combat state                   *)

FrailScores ==
    [strength |-> 4, dexterity |-> 10, constitution |-> 3,
     intelligence |-> 10, wisdom |-> 10, charisma |-> 10]

CallClasses == {"wizard", "fighter"}

CallScores == {WeakScores, StrongScores, FrailScores}

InitCalls ==
    \E className \in CallClasses, scores \in CallScores :
      Starts(initializeGame(createCharacter(className, scores)))

\* xp of awardExperience: nothing, below a level, one level, two and a half
AwardArgs == {0, 400, 1000, 2500}

\* Awards are made while the experience stays below this
MaxExperience == 4000

AwardExperience ==
    \E xp \in AwardArgs :
      /\ calls < MaxCalls
      /\ character.experience + xp < MaxExperience
      /\ lastAction.type \in {"NONE", "awardExperience"}
      /\ \E result \in awardExperience(character, xp) :
           /\ character' = result.character
           /\ lastAction' = [type |-> "awardExperience", xp |-> xp,
                             leveledUp |-> result.leveledUp]
      /\ calls' = calls + 1
      /\ UNCHANGED <<currentLocationId, locations, npcs, quests, combat,
                     activeDialogue, gameLog>>

\* The one call of a behaviour is told, the state of the game stays
Returns(call) ==
    /\ lastAction' = call
    /\ calls' = 1
    /\ UNCHANGED <<character, currentLocationId, locations, npcs, quests,
                   activeDialogue, gameLog>>

BonusArgs == {-1, 3, 6}

ArmorArgs == {7, 13, 21, 27}

MakeAttackRoll ==
    /\ calls = 0
    /\ \E roll \in rollDice(20), attackBonus \in BonusArgs, targetAC \in ArmorArgs :
         Returns([type |-> "makeAttackRoll", attackBonus |-> attackBonus,
                  targetAC |-> targetAC,
                  result |-> makeAttackRoll(attackBonus, targetAC, roll)])
    /\ UNCHANGED combat

\* The NPCs that have combat stats
EnemyArgs == {id \in DOMAIN NPCS : Has(NPCS[id], "stats")}

CharacterAttack ==
    /\ calls = 0
    /\ \E enemyId \in EnemyArgs :
         \E result \in characterAttack(character, npcs[enemyId]) :
           Returns([type |-> "characterAttack", enemyId |-> enemyId,
                    result |-> result])
    /\ UNCHANGED combat

EnemyAttack ==
    /\ calls = 0
    /\ \E enemyId \in EnemyArgs :
         \E result \in enemyAttack(npcs[enemyId], character) :
           Returns([type |-> "enemyAttack", enemyId |-> enemyId,
                    result |-> result])
    /\ UNCHANGED combat

\* The encounter lists of initiateCombat
EnemyLists ==
    {<<"skeleton-warrior">>, <<"dungeon-boss">>,
     <<"skeleton-warrior", "dungeon-boss">>, <<"dungeon-boss", "skeleton-warrior">>}

\* The d20 rolls of the initiatives
InitiativeRolls == {1, 2, 3, 20}

InitiateCombat ==
    /\ calls = 0
    /\ \E enemyIds \in EnemyLists :
         \E rolls \in [1..(Len(enemyIds) + 1) -> InitiativeRolls] :
           LET enemies == [i \in 1..Len(enemyIds) |-> npcs[enemyIds[i]]]
           IN  /\ combat' = CombatOf(character, enemies,
                                     TurnOrderOf(character, enemies, rolls))
               /\ Returns([type |-> "initiateCombat", enemyIds |-> enemyIds,
                           rolls |-> rolls])

NextCalls ==
    \/ AwardExperience \/ MakeAttackRoll \/ CharacterAttack \/ EnemyAttack
    \/ InitiateCombat

SpecCalls == InitCalls /\ [][NextCalls]_vars

----------------------------------------------------------------------------
(* Resting: games in and near the places of rest, of a character unhurt,   *)
(* or left with 1 hit point by a fight that is over, or fallen in a fight  *)
(* begun there (ATTACK begins one with any NPC that has stats, wherever it *)
(* is); the calls walk, fight and rest                                     *)

WoundedGame(locationId, current) ==
    [NewGame EXCEPT
       !.character.hitPoints.current = current,
       !.currentLocationId = locationId,
       !.locations[locationId].visited = TRUE]

RestArgs == {"tavern-rooms", "forest-clearing", "village-tavern"}

InitRest ==
    \E locationId \in RestArgs,
       current \in {0, 1, NewGame.character.hitPoints.max} :
      Starts(WoundedGame(locationId, current))

NextRest == Move \/ Attack \/ Defend \/ Flee \/ Rest

SpecRest == InitRest /\ [][NextRest]_vars

----------------------------------------------------------------------------
(* Potions: games of a wizard of strong constitution in the treasury of    *)
(* the dungeon, where the amulet lies, with any number of hit points left; *)
(* the calls take and use                                                  *)

TreasuryGame(current) ==
    [initializeGame(createCharacter("wizard", StrongScores)) EXCEPT
       !.character.hitPoints.current = current,
       !.currentLocationId = "dungeon-treasury",
       !.locations["dungeon-treasury"].visited = TRUE]

\* A potion, a usable item that is none, an item that is not usable
UseArgs == {"wizard-potion", "magic-amulet", "wizard-staff"}

InitPotion ==
    \E current \in 1..createCharacter("wizard", StrongScores).hitPoints.max :
      Starts(TreasuryGame(current))

TakeAmulet == Call(GameState, [type |-> "TAKE", itemId |-> "magic-amulet"])

UseHeld == \E itemId \in UseArgs : Call(GameState, [type |-> "USE", itemId |-> itemId])

NextPotion == TakeAmulet \/ UseHeld

SpecPotion == InitPotion /\ [][NextPotion]_vars

----------------------------------------------------------------------------
(* A game played on the command line: every call is handleCommand          *)

\* The commands typed: no word, an unknown verb, help, verbs without and
\* with their argument, arguments that name nothing here
WordArgs ==
    {<<>>, <<"dance">>, <<"help">>,
     <<"go">>, <<"go", "sideways">>, <<"go", "south">>, <<"e">>,
     <<"talk">>, <<"talk", "to", "village-guard">>, <<"talk", "nobody">>,
     <<"take">>, <<"take", "forest-stick">>, <<"drop", "forest-stick">>,
     <<"use", "wizard-potion">>,
     <<"attack">>, <<"attack", "skeleton-warrior">>, <<"flee">>,
     <<"buy", "shop-torch">>, <<"buy", "shop-torch", "from", "shopkeeper">>,
     <<"sell", "nothing">>, <<"sell", "wizard-potion", "to", "village-guard">>,
     <<"look">>, <<"leave">>, <<"reply", "1">>}

TypeWords ==
    \E words \in WordArgs :
      Command(GameState, words, [type |-> "WORDS", words |-> words])

InitCommands == \E s \in {NewGame, ParleyGame("greeting"), DuelGame} : Starts(s)

NextCommands == TypeNumber \/ TypeWords

SpecCommands == InitCommands /\ [][NextCommands]_vars

----------------------------------------------------------------------------
(* Fights against two enemies: the skeleton warrior and the dungeon boss,  *)
(* each unhurt or left with 1 hit point, in every turn order, on the turn  *)
(* of the player in the second round, with one call left to make: an      *)
(* attack, a defence or a flight                                           *)

\* The dungeon boss, left with 1 hit point
WoundedBoss == [NewGame.npcs["dungeon-boss"] EXCEPT !.stats.hitPoints = 1]

\* The turn orders of the player and the two enemies
MeleeOrders ==
    {order \in [1..3 -> {PlayerId, "skeleton-warrior", "dungeon-boss"}] :
       \A i, j \in 1..3 : order[i] = order[j] => i = j}

MeleeGame(skeleton, boss, turnOrder) ==
    [NewGame EXCEPT
       !.character.hitPoints.current = 2,
       !.currentLocationId = "ruins-dungeon",
       !.locations["ruins-dungeon"].visited = TRUE,
       !.combat = [active |-> TRUE,
                   enemies |-> <<skeleton, boss>>,
                   enemyMaxHPs |-> [id \in {"skeleton-warrior", "dungeon-boss"} |->
                                      NewGame.npcs[id].stats.hitPoints],
                   totalEnemyCount |-> 2,
                   turnOrder |-> turnOrder,
                   currentTurnIndex |->
                     (CHOOSE p \in 1..3 : turnOrder[p] = PlayerId) - 1,
                   round |-> 2]]

InitMelee ==
    \E skeleton \in {WoundedSkeleton, NewGame.npcs["skeleton-warrior"]},
       boss \in {WoundedBoss, NewGame.npcs["dungeon-boss"]},
       turnOrder \in MeleeOrders :
      LET s == MeleeGame(skeleton, boss, turnOrder)
      IN  /\ character = s.character
          /\ currentLocationId = s.currentLocationId
          /\ locations = s.locations
          /\ npcs = s.npcs
          /\ quests = s.quests
          /\ combat = s.combat
          /\ activeDialogue = s.activeDialogue
          /\ gameLog = s.gameLog
          /\ lastAction = [type |-> "NONE"]
          /\ calls = MaxCalls - 1

AttackEnemy ==
    \E targetId \in EnemyArgs : Call(GameState, [type |-> "ATTACK", targetId |-> targetId])

NextMelee == AttackEnemy \/ Defend \/ Flee

SpecMelee == InitMelee /\ [][NextMelee]_vars

\* The fight against both, each left with 1 hit point, the character first:
\* a game in which a flight and a new fight fit into MaxCalls calls
InitFlight ==
    Starts(MeleeGame(WoundedSkeleton, WoundedBoss,
                     <<PlayerId, "skeleton-warrior", "dungeon-boss">>))

NextFlight == AttackEnemy \/ Flee

SpecFlight == InitFlight /\ [][NextFlight]_vars

----------------------------------------------------------------------------
(* A fight for as long as it lasts.  No handler reads the log or the round *)
(* of the fight, so the state of this machine keeps of the log the entries *)
(* of the last call alone, counts the rounds up to MaxRound and the calls   *)
(* modulo 2                                                                *)

MaxRound == 3

LastCallOf(s, next) ==
    [next EXCEPT !.gameLog = SubSeq(@, Len(s.gameLog) + 1, Len(@)),
                 !.combat.round = Min(@, MaxRound)]

\* The states processAction can return in a fight, each once
Outcomes(s, action) ==
    {LastCallOf(s, next) : next \in Range(processAction(s, action))} \cup {}

\* processAction in a fight, called however many calls were made before
Turn(s, action) ==
    /\ s.combat.active
    /\ lastAction' = action
    /\ calls' = 1 - calls
    /\ \E next \in Outcomes(s, action) : Becomes(next)

\* The skeleton warrior, left with the hit points given
WornSkeleton(hitPoints) ==
    [NewGame.npcs["skeleton-warrior"] EXCEPT !.stats.hitPoints = hitPoints]

\* A fight against the skeleton warrior alone, on the turn of the character,
\* who is unhurt
InitFair ==
    \E hitPoints \in {1, 2}, first \in {PlayerId, "skeleton-warrior"} :
      Starts([FightGame({"skeleton-warrior"}, <<WornSkeleton(hitPoints)>>,
                        IF first = PlayerId THEN <<PlayerId, "skeleton-warrior">>
                        ELSE <<"skeleton-warrior", PlayerId>>) EXCEPT
                !.character.hitPoints.current = NewGame.character.hitPoints.max,
                !.combat.currentTurnIndex = IF first = PlayerId THEN 0 ELSE 1,
                !.gameLog = <<>>])

AttackInTurn ==
    \E targetId \in EnemyArgs : Turn(GameState, [type |-> "ATTACK", targetId |-> targetId])

DefendInTurn == Turn(GameState, [type |-> "DEFEND"])

FleeInTurn == Turn(GameState, [type |-> "FLEE"])

NextFair == AttackInTurn \/ DefendInTurn \/ FleeInTurn

\* A call made in the fight
TakesTurn == combat.active /\ calls' = 1 - calls

\* A call in which the blows of the enemies cost the character hit points
EnemyHits == TakesTurn /\ character'.hitPoints.current < character.hitPoints.current

\* Weak fairness of the calls: the player goes on to act while the fight
\* lasts.  A call is enabled exactly while the fight is active, so that
\* WF_vars(NextFair) is this formula
FairTurns == []<>(~combat.active) \/ []<><<TakesTurn>>_vars

\* Strong fairness of the blows that hit: with fair dice a fight that goes
\* on brings them again and again.  One is possible exactly while the fight
\* is active (CanBeHit), so that SF_vars(NextFair /\ EnemyHits) is this
\* formula
FairDice == <>[](~combat.active) \/ []<><<EnemyHits>>_vars

SpecFair == InitFair /\ [][NextFair]_vars /\ FairTurns /\ FairDice

----------------------------------------------------------------------------
(* Trade with the shopkeeper: a new game, and games in which the character *)
(* has picked up the ancient key of 0.2 pounds or the magic amulet of 0.1  *)

KeyGame == handleTake(RuinsGame, "ancient-key")

AmuletGame ==
    handleTake(TreasuryGame(createCharacter("wizard", StrongScores).hitPoints.max),
               "magic-amulet")

\* The items the shopkeeper has for sale at the start
ShopArgs ==
    {NPCS["shopkeeper"].shop.items[i].id : i \in 1..Len(NPCS["shopkeeper"].shop.items)}

InitTrade == \E s \in {NewGame, KeyGame, AmuletGame} : Starts(s)

BuyInShop ==
    \E itemId \in ShopArgs :
      Call(GameState, [type |-> "BUY", itemId |-> itemId, npcId |-> "shopkeeper"])

SellInShop ==
    \E itemId \in ShopArgs :
      Call(GameState, [type |-> "SELL", itemId |-> itemId, npcId |-> "shopkeeper"])

NextTrade == BuyInShop \/ SellInShop

SpecTrade == InitTrade /\ [][NextTrade]_vars

----------------------------------------------------------------------------
(* Properties                                                              *)

\* The entries of the log, from the last one backwards
LastLog(k) == gameLog[Len(gameLog) + 1 - k]

\* The log ends with the entries of a victory over the enemy id
VictoryOver(id) ==
    /\ Len(gameLog) >= 2
    /\ LastLog(1).message = <<"victory">>
    /\ LastLog(2).message = <<"has been defeated", id>>

\* The ids of the NPCs some location lists
ListedNpcs ==
    UNION {Range(locations[locId].npcs) : locId \in DOMAIN locations}

\* C1: in the state returned by the ATTACK that wins a combat, no location
\* lists the enemy whose defeat ended it.
C1_DefeatedLeaveEveryLocation ==
    \A id \in DOMAIN npcs : VictoryOver(id) => id \notin ListedNpcs

\* The amounts healCharacter and damageCharacter are tried with
MaxAmount == 30

\* C2: the current hit points are between 0 and the maximum in every
\* reachable state, and healCharacter and damageCharacter of any amount keep
\* them there: no heal ends above the maximum, no damage below 0.
C2_HitPointsInRange ==
    /\ character.hitPoints.current \in 0..character.hitPoints.max
    /\ \A amount \in 0..MaxAmount :
         LET healed == healCharacter(character, amount).hitPoints
             damaged == damageCharacter(character, amount).hitPoints
         IN  /\ healed.max = character.hitPoints.max
             /\ damaged.max = character.hitPoints.max
             /\ healed.current =
                  Min(character.hitPoints.max, character.hitPoints.current + amount)
             /\ damaged.current = Max(0, character.hitPoints.current - amount)
             /\ healed.current \in 0..healed.max
             /\ damaged.current \in 0..damaged.max

\* An enemy has brought a wounded character to 0 hit points: its damage was
\* cut off at 0, and a heal of MaxAmount would be cut off at the maximum
C2_Witness ==
    /\ character.hitPoints.current = 0
    /\ Len(gameLog) >= 1 /\ LastLog(1).message = <<"has fallen">>
    /\ character.hitPoints.max < MaxAmount

\* The step appends one entry of the given type to the log
Logs(type) ==
    /\ Len(gameLog') = Len(gameLog) + 1
    /\ SubSeq(gameLog', 1, Len(gameLog)) = gameLog
    /\ gameLog'[Len(gameLog')].type = type

\* The step changes nothing but the log
OnlyLogChanges ==
    UNCHANGED <<character, currentLocationId, locations, npcs, quests, combat,
                activeDialogue>>

WeightWithinLimit ==
    character.inventory.currentWeight <= character.inventory.maxWeight

\* A TAKE of an item that lies here, outside combat
TakeRule ==
    LET here == locations[currentLocationId].items
        itemIndex == FindIndex(here, LAMBDA i : i.id = lastAction'.itemId)
        item == here[itemIndex]
        sum == Plus(character.inventory.currentWeight, Pounds(item.weight))
    IN  (/\ lastAction'.type = "TAKE" /\ isAlive(character) /\ ~combat.active
         /\ itemIndex # 0)
        => IF sum > character.inventory.maxWeight
           THEN OnlyLogChanges /\ Logs("warning")
           ELSE /\ character'.inventory.items = Append(character.inventory.items, item)
                /\ character'.inventory.currentWeight = sum
                /\ locations'[currentLocationId].items = RemoveAt(here, itemIndex)
                /\ Logs("success")

\* A BUY of an item the shop lists, at a price the character can pay,
\* outside combat
BuyRule ==
    LET npcId == lastAction'.npcId
        stock == npcs[npcId].shop.items
        itemIndex == FindIndex(stock, LAMBDA i : i.id = lastAction'.itemId)
        item == stock[itemIndex]
        price == CeilDiv(item.value * npcs[npcId].shop.buyMultiplier, 10)
        sum == Plus(character.inventory.currentWeight, Pounds(item.weight))
    IN  (/\ lastAction'.type = "BUY" /\ isAlive(character) /\ ~combat.active
         /\ npcId \in DOMAIN npcs /\ Has(npcs[npcId], "shop")
         /\ itemIndex # 0 /\ character.gold >= price)
        => IF sum > character.inventory.maxWeight
           THEN OnlyLogChanges /\ Logs("warning")
           ELSE /\ character'.inventory.items = Append(character.inventory.items, item)
                /\ character'.inventory.currentWeight = sum
                /\ character'.gold = character.gold - price
                /\ npcs'[npcId].shop.items = RemoveAt(stock, itemIndex)
                /\ Logs("success")

\* C3: a TAKE of an item that lies here and a BUY of a listed item the
\* character can pay are refused (one warning, nothing else changed) when
\* currentWeight + item.weight > maxWeight and carried out when it is at most
\* maxWeight, so currentWeight <= maxWeight in every reachable state.
C3_WeightLimit ==
    /\ WeightWithinLimit
    /\ [][TakeRule /\ BuyRule /\ WeightWithinLimit']_vars

\* The torch was bought when it filled the load to exactly maxWeight, and the
\* TAKE of the stick was then refused for its weight
C3_Witness ==
    /\ lastAction = [type |-> "TAKE", itemId |-> "forest-stick"]
    /\ character.inventory.currentWeight = character.inventory.maxWeight
    /\ Len(gameLog) >= 2
    /\ LastLog(1) = [message |-> <<"cannot carry", "forest-stick">>, type |-> "warning"]
    /\ LastLog(2).message = <<"you buy", "shop-torch">>
    /\ "forest-stick" \in {locations[currentLocationId].items[i].id :
                             i \in DOMAIN locations[currentLocationId].items}

\* C4: when the character has 0 hit points or fewer, a call with any action
\* but LOAD_GAME appends exactly one error entry to the log and changes
\* nothing else; LOAD_GAME changes nothing but the log either; so the dead
\* stay dead.
C4_DeadRejectsActions ==
    [][character.hitPoints.current <= 0
         => /\ OnlyLogChanges
            /\ lastAction'.type # "LOAD_GAME" => Logs("error")
            /\ character'.hitPoints.current <= 0]_vars

\* The character has fallen and the ATTACK of the next call was rejected
C4_Witness ==
    /\ character.hitPoints.current = 0
    /\ lastAction = [type |-> "ATTACK", targetId |-> "skeleton-warrior"]
    /\ ~combat.active
    /\ Len(gameLog) >= 2
    /\ LastLog(1) = [message |-> <<"you are dead">>, type |-> "error"]
    /\ LastLog(2).message = <<"has fallen">>

\* The armor class createCharacter gave
BaseArmorClass ==
    character.armorClass = 10 + character.abilityModifiers.dexterity

\* The log entries the step appends
Appended == SubSeq(gameLog', Len(gameLog) + 1, Len(gameLog'))

\* The armor class the misses of the enemies in this step were rolled against
MissedArmorClasses ==
    {Appended[i].message[4] :
       i \in {j \in 1..Len(Appended) :
                /\ Len(Appended[j].message) = 4
                /\ Appended[j].message[1] = "enemy"
                /\ Appended[j].message[3] = "miss vs AC"}}

\* C5: the enemies that act in a DEFEND call attack an armor class 2 higher
\* than the character's, those of any other call the character's own; the
\* state DEFEND returns has the armor class of before the call; so the armor
\* class is 10 + the dexterity modifier in every reachable state.
C5_DefendBonusIsTemporary ==
    /\ BaseArmorClass
    /\ [][/\ BaseArmorClass'
          /\ lastAction'.type = "DEFEND" =>
               /\ character'.armorClass = character.armorClass
               /\ MissedArmorClasses \subseteq {ToString(character.armorClass + 2)}
          /\ lastAction'.type # "DEFEND" =>
               MissedArmorClasses \subseteq {ToString(character.armorClass)}]_vars

\* After a DEFEND in which the enemy missed the raised armor class
C5_Witness ==
    /\ lastAction.type = "DEFEND"
    /\ combat.active
    /\ Len(gameLog) >= 2
    /\ LastLog(2).message = <<"defensive stance">>
    /\ LastLog(1).message = <<"enemy", "skeleton-warrior", "miss vs AC",
                              ToString(character.armorClass + 2)>>

\* The item ids of a list of items
ItemIds(items) == {items[i].id : i \in 1..Len(items)}

\* The action of the step fails for one of the reasons below, in a state
\* where the character is alive and (but for DEFEND and FLEE) not in combat
MoveFails ==
    /\ lastAction'.type = "MOVE" /\ ~combat.active
    /\ lastAction'.direction \notin DOMAIN locations[currentLocationId].connections

TalkFails ==
    /\ lastAction'.type = "TALK" /\ ~combat.active
    /\ \/ lastAction'.npcId \notin Range(locations[currentLocationId].npcs)
       \/ lastAction'.npcId \notin DOMAIN npcs
       \/ npcs[lastAction'.npcId].hostile

TakeFails ==
    /\ lastAction'.type = "TAKE" /\ ~combat.active
    /\ lastAction'.itemId \notin ItemIds(locations[currentLocationId].items)

NotHeldFails ==
    /\ \/ lastAction'.type \in {"DROP", "SELL"} /\ ~combat.active
       \/ lastAction'.type = "USE"
    /\ lastAction'.itemId \notin ItemIds(character.inventory.items)

UseFails ==
    /\ lastAction'.type = "USE"
    /\ \E i \in 1..Len(character.inventory.items) :
         /\ character.inventory.items[i].id = lastAction'.itemId
         /\ \A j \in 1..(i - 1) : character.inventory.items[j].id # lastAction'.itemId
         /\ ~character.inventory.items[i].usable

BuyFails ==
    /\ lastAction'.type = "BUY" /\ ~combat.active
    /\ \/ lastAction'.npcId \notin DOMAIN npcs
       \/ ~Has(npcs[lastAction'.npcId], "shop")
       \/ lastAction'.itemId \notin ItemIds(npcs[lastAction'.npcId].shop.items)
       \/ \E i \in 1..Len(npcs[lastAction'.npcId].shop.items) :
            LET stock == npcs[lastAction'.npcId].shop
            IN  /\ stock.items[i].id = lastAction'.itemId
                /\ \A j \in 1..(i - 1) : stock.items[j].id # lastAction'.itemId
                /\ character.gold * 10 < stock.items[i].value * stock.buyMultiplier

RestFails ==
    /\ lastAction'.type = "REST" /\ ~combat.active
    /\ currentLocationId \notin REST_LOCATIONS

DefendFleeFails ==
    /\ lastAction'.type \in {"DEFEND", "FLEE"} /\ ~combat.active

DialogueSelectFails ==
    /\ lastAction'.type = "DIALOGUE_SELECT"
    /\ \/ activeDialogue = Null
       \/ /\ activeDialogue.npcId \in DOMAIN npcs
          /\ lastAction'.optionIndex # -1
          /\ \E i \in 1..Len(npcs[activeDialogue.npcId].dialogue) :
               LET node == npcs[activeDialogue.npcId].dialogue[i]
               IN  /\ node.id = activeDialogue.currentNodeId
                   /\ lastAction'.optionIndex \notin 0..(Len(node.options) - 1)

ActionFails ==
    /\ isAlive(character)
    /\ \/ MoveFails \/ TalkFails \/ TakeFails \/ NotHeldFails \/ UseFails
       \/ BuyFails \/ RestFails \/ DefendFleeFails \/ DialogueSelectFails

\* C6: a call whose action fails at action time (MOVE in a direction with
\* no destination, TALK to someone absent or hostile, TAKE of an item that is
\* not here, DROP, USE or SELL of an item not held, USE of an item that is not
\* usable, BUY without shop, listing or gold, REST in an unsafe place, DEFEND
\* or FLEE outside combat, DIALOGUE_SELECT without dialogue or out of range)
\* changes nothing but the log, also while a dialogue is active.
C6_FailuresChangeOnlyTheLog ==
    [][ActionFails => OnlyLogChanges /\ Len(gameLog') > Len(gameLog)]_vars

\* The same for every failure but a MOVE during a dialogue, which ends the
\* dialogue
FailuresButMoveChangeOnlyTheLog ==
    [][ActionFails
         => IF MoveFails /\ activeDialogue # Null
            THEN /\ activeDialogue' = Null
                 /\ UNCHANGED <<character, currentLocationId, locations, npcs,
                                quests, combat>>
                 /\ Logs("warning")
            ELSE OnlyLogChanges /\ (Logs("warning") \/ Logs("error"))]_vars

\* The actions that are blocked during combat
BlockedInCombat == {"MOVE", "TALK", "TAKE", "DROP", "BUY", "SELL", "REST"}

\* C7: during combat each of MOVE, TALK, TAKE, DROP, BUY, SELL and REST
\* appends one warning to the log and changes nothing else (the combat with
\* its turn cursor and round included): no enemy acts.
C7_BlockedInCombat ==
    [][(combat.active /\ lastAction'.type \in BlockedInCombat)
         => OnlyLogChanges /\ Logs("warning")]_vars

\* A MOVE during the fight against the skeleton warrior was turned away
C7_Witness ==
    /\ combat.active
    /\ lastAction.type = "MOVE"
    /\ lastAction.direction \in DOMAIN locations[currentLocationId].connections
    /\ LastLog(1) = [message |-> <<"cannot move in combat">>, type |-> "warning"]
    /\ isPlayerTurn(combat, character.id)

\* The step is a victory: it appends the victory entry
VictoryStep ==
    \E i \in 1..Len(Appended) : Appended[i].message = <<"victory">>

\* The number of enemies the combat that ends in this step started with: the
\* combat's count, or 1 for the combat an ATTACK starts
StartedWith == IF combat.active THEN combat.totalEnemyCount ELSE 1

\* C8: a victory over a combat that started with N enemies adds exactly
\* N * 100 to the experience and between 10 * N and 50 * N to the gold,
\* whatever the number of enemies left in the list.
C8_VictoryRewards ==
    [][VictoryStep
         => /\ character'.experience = character.experience + StartedWith * 100
            /\ character'.gold - character.gold
                 \in (10 * StartedWith)..(50 * StartedWith)
            /\ combat' = InactiveCombat]_vars

\* The last of two enemies was defeated: 200 experience and the most gold
C8_Witness ==
    /\ LastLog(1).message = <<"victory">>
    /\ lastAction.type = "ATTACK"
    /\ calls = 1
    /\ character.experience = 200
    /\ character.gold = NewGame.character.gold + 100
    /\ ~combat.active

\* C9: the enemy attack that brings the character to 0 hit points resets the
\* combat and is the last thing of the call but for the entry that the
\* character has fallen: no enemy acts after it; so a character with 0 hit
\* points is never in an active combat.
C9_DeathEndsCombat ==
    /\ character.hitPoints.current <= 0 => combat = InactiveCombat
    /\ [][(character.hitPoints.current > 0 /\ character'.hitPoints.current <= 0)
            => /\ combat' = InactiveCombat
               /\ Len(Appended) >= 2
               /\ Appended[Len(Appended)] =
                    [message |-> <<"has fallen">>, type |-> "error"]
               /\ Appended[Len(Appended) - 1].message[1] = "enemy"
               /\ Appended[Len(Appended) - 1].message[3] \in {"hit", "critical hit"}
               /\ \A i \in 1..(Len(Appended) - 1) :
                    Appended[i].message # <<"has fallen">>]_vars

\* The skeleton warrior felled the character and the dungeon boss, next in
\* the turn order, did not act
C9_Witness ==
    /\ character.hitPoints.current = 0
    /\ ~combat.active
    /\ lastAction.type = "DEFEND"
    /\ calls = 1
    /\ Len(gameLog) >= 3
    /\ LastLog(1).message = <<"has fallen">>
    /\ LastLog(2).message[2] = "skeleton-warrior"
    /\ LastLog(3).message = <<"defensive stance">>

\* The ATTACK of the step starts a combat
AttackStartsCombat ==
    /\ lastAction'.type = "ATTACK"
    /\ isAlive(character) /\ ~combat.active
    /\ lastAction'.targetId \in DOMAIN npcs
    /\ Has(npcs[lastAction'.targetId], "stats")

\* C10: an ATTACK outside combat on an NPC that has stats starts a combat
\* against that NPC alone, and the player's attack is the first of the call,
\* before any attack of the enemy, whatever the turn order.
C10_FirstStrike ==
    [][AttackStartsCombat
         => LET targetId == lastAction'.targetId
            IN  /\ Len(Appended) >= 2
                /\ Appended[1].message = <<"you attack", targetId>>
                /\ Appended[2].message[1] = "character"
                /\ Appended[2].message[2] = targetId
                /\ \A i \in 1..Len(Appended) :
                     Appended[i].message[1] = "enemy"
                       => i > 2 /\ Appended[i].message[2] = targetId
                /\ combat'.active
                     => /\ combat'.totalEnemyCount = 1
                        /\ Len(combat'.enemies) = 1
                        /\ combat'.enemies[1].id = targetId
                        /\ Range(combat'.turnOrder) = {character.id, targetId}
                        /\ Len(combat'.turnOrder) = 2]_vars

\* The skeleton warrior won the initiative, and the call that started the
\* combat holds the player's attack and no attack of the skeleton warrior
C10_Witness ==
    /\ lastAction = [type |-> "ATTACK", targetId |-> "skeleton-warrior"]
    /\ calls = 1
    /\ combat.active
    /\ combat.turnOrder = <<"skeleton-warrior", character.id>>
    /\ LastLog(2).message = <<"you attack", "skeleton-warrior">>
    /\ LastLog(1).message[1] = "character"

\* The step is a FLEE of a living character in an active combat
FleeInCombat ==
    /\ lastAction'.type = "FLEE"
    /\ isAlive(character) /\ combat.active

\* The totals a flee roll can come to: d20 + dexterity modifier
FleeTotals == {roll + character.abilityModifiers.dexterity : roll \in 1..20}

\* The turn order from the combatant after the cursor round to the cursor
AfterCursor ==
    LET n == Len(combat.turnOrder)
    IN  [k \in 1..n |-> combat.turnOrder[((combat.currentTurnIndex + k) % n) + 1]]

\* The live enemies whose turns come before the player's next turn, in order
ActingQueue ==
    LET stop == CHOOSE k \in 1..Len(AfterCursor) :
                  /\ AfterCursor[k] = character.id
                  /\ \A j \in 1..(k - 1) : AfterCursor[j] # character.id
        live == {combat.enemies[i].id :
                   i \in {j \in 1..Len(combat.enemies) :
                            /\ Has(combat.enemies[j], "stats")
                            /\ combat.enemies[j].stats.hitPoints > 0}}
    IN  SelectSeq(SubSeq(AfterCursor, 1, stop - 1), LAMBDA id : id \in live)

\* The flee succeeded: two entries, the combat is over, no enemy acted and
\* nothing else changed
FleeSucceeds(total) ==
    /\ Appended = <<[message |-> <<"flees", ToString(total)>>, type |-> "combat"],
                    [message |-> <<"escaped">>, type |-> "success"]>>
    /\ combat' = InactiveCombat
    /\ UNCHANGED <<character, currentLocationId, locations, npcs, quests, activeDialogue>>

\* The flee failed: the enemies of the queue act in turn, until the character
\* has fallen or it is the player's turn again
FleeFails(total) ==
    LET last == Len(Appended)
        fallen == ~isAlive(character')
        blows == IF fallen THEN last - 2 ELSE last - 1
    IN  /\ last >= 1
        /\ Appended[1] = [message |-> <<"fails to escape", ToString(total)>>,
                          type |-> "combat"]
        /\ blows \in 0..Len(ActingQueue)
        /\ \A k \in 1..blows :
             /\ Appended[k + 1].type = "combat"
             /\ Appended[k + 1].message[1] = "enemy"
             /\ Appended[k + 1].message[2] = ActingQueue[k]
        /\ IF fallen
           THEN /\ blows >= 1
                /\ Appended[last] = [message |-> <<"has fallen">>, type |-> "error"]
                /\ combat' = InactiveCombat
           ELSE /\ blows = Len(ActingQueue)
                /\ combat'.active
                /\ isPlayerTurn(combat', character.id)
                /\ combat'.round \in {combat.round, combat.round + 1}
                /\ combat'.enemies = combat.enemies
                /\ combat'.turnOrder = combat.turnOrder
        /\ UNCHANGED <<currentLocationId, locations, npcs, quests, activeDialogue>>

\* C11: a FLEE in an active combat succeeds exactly when d20 + dexterity
\* modifier is 12 or more; then the combat is reset, no enemy acts and the hit
\* points stay; when it fails the turn passes on and the enemies act in turn
\* order until it is the player's turn again or the character has fallen.
C11_FleeAtTwelve ==
    [][FleeInCombat
         => \E total \in FleeTotals :
              IF total >= 12 THEN FleeSucceeds(total) ELSE FleeFails(total)]_vars

\* A flee that came to 11 failed; the skeleton warrior and the dungeon boss
\* both missed, and it is the player's turn in the next round
C11_Witness ==
    /\ lastAction.type = "FLEE"
    /\ Len(gameLog) >= 3
    /\ LastLog(3).message = <<"fails to escape", "11">>
    /\ LastLog(2).message = <<"enemy", "skeleton-warrior", "critical miss">>
    /\ LastLog(1).message = <<"enemy", "dungeon-boss", "critical miss">>
    /\ combat.active /\ isPlayerTurn(combat, character.id)
    /\ combat.round = 3

\* A flee that came to exactly 12 succeeded
FleeOfTwelve ==
    /\ lastAction.type = "FLEE"
    /\ Len(gameLog) >= 2
    /\ LastLog(2).message = <<"flees", "12">>
    /\ ~combat.active

\* The node of the active dialogue, Null when the NPC has no such node
CurrentNode ==
    LET dialogue == npcs[activeDialogue.npcId].dialogue
        found == {i \in 1..Len(dialogue) : dialogue[i].id = activeDialogue.currentNodeId}
    IN  IF found = {} THEN Null
        ELSE dialogue[CHOOSE i \in found : \A j \in found : i <= j]

\* The step is a DIALOGUE_SELECT of a living character in a conversation
SelectsInDialogue ==
    /\ lastAction'.type = "DIALOGUE_SELECT"
    /\ isAlive(character)
    /\ activeDialogue # Null
    /\ activeDialogue.npcId \in DOMAIN npcs

\* The step is a TALK of a living character, outside combat, to a peaceful
\* NPC that is here
TalksToSomeoneHere ==
    /\ lastAction'.type = "TALK"
    /\ isAlive(character) /\ ~combat.active
    /\ lastAction'.npcId \in DOMAIN npcs
    /\ lastAction'.npcId \in Range(locations[currentLocationId].npcs)
    /\ ~npcs[lastAction'.npcId].hostile

\* C12: for a living character in a conversation, DIALOGUE_SELECT with -1
\* ends the conversation, and an index that is not -1 and not an option of
\* the current node leaves the conversation as it is and logs one warning; a
\* TALK to an NPC whose start node has an option opens the conversation with
\* that NPC at that node.
C12_LeaveStayAndStart ==
    [][/\ (SelectsInDialogue /\ lastAction'.optionIndex = -1)
            => activeDialogue' = Null
       /\ (/\ SelectsInDialogue /\ lastAction'.optionIndex # -1
           /\ CurrentNode # Null
           /\ lastAction'.optionIndex \notin 0..(Len(CurrentNode.options) - 1))
            => OnlyLogChanges /\ Logs("warning")
       /\ TalksToSomeoneHere
            => LET start == getStartingDialogue(npcs[lastAction'.npcId])
               IN  (start # Null /\ Len(start.options) >= 1)
                     => activeDialogue' = [npcId |-> lastAction'.npcId,
                                           currentNodeId |-> start.id]]_vars

\* The TALK to the village guard opened the conversation at the greeting, and
\* the choice of an option below the first then left it open
C12_Witness ==
    /\ lastAction = [type |-> "DIALOGUE_SELECT", optionIndex |-> -2]
    /\ calls = 2
    /\ activeDialogue = [npcId |-> "village-guard", currentNodeId |-> "greeting"]
    /\ LastLog(1) = [message |-> <<"choose a number">>, type |-> "warning"]
    /\ LastLog(2).message = <<"options">>
    /\ LastLog(3).message = <<"npc says", "village-guard", "greeting">>

\* The conversation with the village guard was ended by the choice of -1
LeftTheGuard ==
    /\ lastAction = [type |-> "DIALOGUE_SELECT", optionIndex |-> -1]
    /\ activeDialogue = Null
    /\ LastLog(1).message = <<"end the conversation", "village-guard">>

\* The step chooses an option of the current node
ChoosesOption ==
    /\ SelectsInDialogue
    /\ CurrentNode # Null
    /\ lastAction'.optionIndex \in 0..(Len(CurrentNode.options) - 1)

\* The option the step chooses
Chosen == CurrentNode.options[lastAction'.optionIndex + 1]

\* The entry of the player's line
SaysChosen ==
    /\ Len(Appended) >= 1
    /\ Appended[1] = [message |-> <<"you say", ToString(lastAction'.optionIndex)>>,
                      type |-> "dialogue"]

\* The totals the ability check of the chosen option can come to
CheckTotals ==
    {roll + character.abilityModifiers[Chosen.requiresCheck.ability] : roll \in 1..20}

\* The second entry of the step is the check of the chosen option with the
\* total, of the type given
ChecksWith(total, type) ==
    /\ Len(Appended) >= 2
    /\ Appended[2] = [message |-> <<"ability check", Chosen.requiresCheck.ability,
                                    ToString(total), ToString(Chosen.requiresCheck.dc)>>,
                      type |-> type]

\* The conversation the chosen option leads to: its next node, if the NPC
\* has that node and the node has an option
NextDialogue ==
    LET dialogue == npcs[activeDialogue.npcId].dialogue
    IN  IF /\ Has(Chosen, "nextNodeId")
           /\ \E i \in 1..Len(dialogue) :
                /\ dialogue[i].id = Chosen.nextNodeId
                /\ \A j \in 1..(i - 1) : dialogue[j].id # Chosen.nextNodeId
                /\ Len(dialogue[i].options) >= 1
        THEN [npcId |-> activeDialogue.npcId, currentNodeId |-> Chosen.nextNodeId]
        ELSE Null

\* The first entry each callback of an option writes
CallbackHeads ==
    {<<"for sale">>, <<"all sold out">>, <<"your items">>, <<"nothing to sell">>}

\* The number of callbacks that wrote to the log in this step
CallbacksRun ==
    Cardinality({i \in 1..Len(Appended) : Appended[i].message \in CallbackHeads})

\* The callbacks of the chosen option that write to the log: one or none
CallbacksDue ==
    IF Has(Chosen, "action") /\ Chosen.action \in {"listForSale", "listSellable"}
    THEN 1 ELSE 0

\* C13: when the chosen option asks for an ability check and d20 + the
\* modifier of the ability is below the DC, one warning tells the failed
\* check, the callback of the option is not run, the conversation stays on its
\* node and nothing but the log changes; with a total of the DC or more the
\* check is a success and the option is taken.
C13_FailedCheckStays ==
    [][(ChoosesOption /\ Has(Chosen, "requiresCheck"))
         => /\ SaysChosen
            /\ \E total \in CheckTotals :
                 IF total < Chosen.requiresCheck.dc
                 THEN /\ ChecksWith(total, "warning")
                      /\ Len(Appended) = 3
                      /\ Appended[3] = [message |-> <<"is not convinced", activeDialogue.npcId>>,
                                        type |-> "dialogue"]
                      /\ CallbacksRun = 0
                      /\ OnlyLogChanges
                 ELSE /\ ChecksWith(total, "success")
                      /\ \A i \in 1..Len(Appended) :
                           Appended[i].message[1] # "is not convinced"
                      /\ CallbacksRun = CallbacksDue
                      /\ activeDialogue' = NextDialogue]_vars

\* A strength check against DC 10 came to 9: the guard is not convinced, the
\* conversation is still at the greeting and the items were not listed
C13_Witness ==
    /\ lastAction = [type |-> "DIALOGUE_SELECT", optionIndex |-> 0]
    /\ activeDialogue = [npcId |-> "village-guard", currentNodeId |-> "greeting"]
    /\ npcs["village-guard"].dialogue = TrialDialogue
    /\ LastLog(1).message = <<"is not convinced", "village-guard">>
    /\ LastLog(2) = [message |-> <<"ability check", "strength", "9", "10">>,
                     type |-> "warning"]

\* The step takes the chosen option: it needs no check, or its check passed
TakesOption ==
    /\ ChoosesOption
    /\ Has(Chosen, "requiresCheck")
         => /\ Len(Appended) >= 2
            /\ Appended[2].message[1] = "ability check"
            /\ Appended[2].type = "success"

\* C14: when an option is taken, its callback is run once, and the
\* conversation goes on at the option's next node if the option names one,
\* the NPC has that node and the node has an option; otherwise the
\* conversation ends.
C14_NextNodeOrEnd ==
    [][TakesOption
         => /\ SaysChosen
            /\ CallbacksRun = CallbacksDue
            /\ activeDialogue' = NextDialogue
            /\ NextDialogue # Null
                 => /\ Appended[Len(Appended)].message = <<"options">>
                    /\ Appended[Len(Appended) - 1].message =
                         <<"npc says", activeDialogue.npcId, Chosen.nextNodeId>>]_vars

\* The strength check against DC 10 came to exactly 10: the items were
\* listed once and the conversation went on at the trial node
C14_Witness ==
    /\ lastAction = [type |-> "DIALOGUE_SELECT", optionIndex |-> 0]
    /\ activeDialogue = [npcId |-> "village-guard", currentNodeId |-> "trial"]
    /\ npcs["village-guard"].dialogue = TrialDialogue
    /\ \E k \in 1..Len(gameLog) :
         /\ gameLog[k] = [message |-> <<"ability check", "strength", "10", "10">>,
                          type |-> "success"]
         /\ Cardinality({i \in k..Len(gameLog) : gameLog[i].message = <<"your items">>}) = 1
    /\ LastLog(1).message = <<"options">>

\* The conversation ended at a node without options
EndedAtTheSilent ==
    /\ lastAction = [type |-> "DIALOGUE_SELECT", optionIndex |-> 2]
    /\ activeDialogue = Null
    /\ LastLog(1).message = <<"npc says", "village-guard", "silent">>

\* The conversation ended at a link to a node the NPC does not have
EndedAtTheMissing ==
    /\ lastAction = [type |-> "DIALOGUE_SELECT", optionIndex |-> 1]
    /\ activeDialogue = Null
    /\ npcs["village-guard"].dialogue = TrialDialogue
    /\ LastLog(1).message = <<"you say", "1">>
    /\ LastLog(2).message = <<"options">>
    /\ LastLog(3).message = <<"npc says", "village-guard", "greeting">>

\* The step is a number typed by a living character in a conversation
TypesInDialogue ==
    /\ lastAction'.type = "COMMAND"
    /\ isAlive(character)
    /\ activeDialogue # Null
    /\ activeDialogue.npcId \in DOMAIN npcs
    /\ CurrentNode # Null

\* The number typed chooses the option counted from 1, and a number that
\* counts no option leaves the conversation as it is and logs one warning
NumberIsOption ==
    LET n == lastAction'.input
    IN  IF n \in 1..Len(CurrentNode.options)
        THEN /\ Len(Appended) >= 1
             /\ Appended[1] = [message |-> <<"you say", ToString(n - 1)>>,
                               type |-> "dialogue"]
        ELSE OnlyLogChanges /\ Logs("warning")

\* C15: in a conversation a number n typed as the command chooses option
\* n - 1 when n is between 1 and the number of options of the current node;
\* every other number, 0 too, leaves the conversation open on the same node
\* and logs a warning.
C15_TypedNumberIsOption ==
    [][TypesInDialogue => NumberIsOption]_vars

\* The same for every number but 0, which ends the conversation
TypedNumberButZeroIsOption ==
    [][TypesInDialogue
         => IF lastAction'.input = 0
            THEN activeDialogue' = Null /\ Logs("info")
            ELSE NumberIsOption]_vars

\* A number above the options of the greeting was typed to the village guard
TypedAboveTheOptions ==
    /\ lastAction = [type |-> "COMMAND", input |-> 4]
    /\ activeDialogue = [npcId |-> "village-guard", currentNodeId |-> "greeting"]
    /\ LastLog(1) = [message |-> <<"choose a number">>, type |-> "warning"]

\* The start node the preference greeting, encounter, combat picks from the
\* ids of a dialogue, Undefined when it has none of them
PreferredStart(dialogue) ==
    LET ids == {dialogue[i].id : i \in 1..Len(dialogue)}
    IN  IF "greeting" \in ids THEN "greeting"
        ELSE IF "encounter" \in ids THEN "encounter"
        ELSE IF "combat" \in ids THEN "combat"
        ELSE Undefined

\* C16: a TALK starts at the node named greeting if the NPC has one,
\* otherwise at the node named encounter, otherwise at the node named combat,
\* in whatever order the nodes are listed; an NPC with none of them has
\* nothing to say and no conversation is opened.
C16_StartNodePreference ==
    [][TalksToSomeoneHere
         => LET npcId == lastAction'.npcId
                start == PreferredStart(npcs[npcId].dialogue)
            IN  /\ Len(Appended) >= 1
                /\ IF start = Undefined
                   THEN /\ Appended = <<[message |-> <<"nothing to say", npcId>>,
                                         type |-> "info"]>>
                        /\ OnlyLogChanges
                   ELSE Appended[1].message = <<"npc says", npcId, start>>]_vars

\* The same for the first listed of the nodes named greeting, encounter or
\* combat
StartsAtFirstListed ==
    [][TalksToSomeoneHere
         => LET npcId == lastAction'.npcId
                dialogue == npcs[npcId].dialogue
                starts == {i \in 1..Len(dialogue) :
                             dialogue[i].id \in {"greeting", "encounter", "combat"}}
            IN  /\ Len(Appended) >= 1
                /\ IF starts = {}
                   THEN /\ Appended = <<[message |-> <<"nothing to say", npcId>>,
                                         type |-> "info"]>>
                        /\ OnlyLogChanges
                   ELSE Appended[1].message =
                          <<"npc says", npcId,
                            dialogue[CHOOSE i \in starts : \A j \in starts : i <= j].id>>]_vars

\* n is Math.ceil(numerator / denominator), Math.floor(numerator / denominator)
IsCeil(n, numerator, denominator) ==
    n * denominator >= numerator /\ (n - 1) * denominator < numerator

IsFloor(n, numerator, denominator) ==
    n * denominator <= numerator /\ (n + 1) * denominator > numerator

\* The step leaves the purse and the inventory as they were
NoTrade ==
    /\ character'.gold = character.gold
    /\ character'.inventory = character.inventory

\* A BUY either trades nothing or takes the listed item for the rounded-up
\* price, which the purse held
BuyPrice ==
    lastAction'.type = "BUY" =>
      \/ NoTrade
      \/ /\ lastAction'.npcId \in DOMAIN npcs
         /\ Has(npcs[lastAction'.npcId], "shop")
         /\ LET shop == npcs[lastAction'.npcId].shop
                itemIndex == FindIndex(shop.items, LAMBDA i : i.id = lastAction'.itemId)
                paid == character.gold - character'.gold
            IN  /\ itemIndex # 0
                /\ IsCeil(paid, shop.items[itemIndex].value * shop.buyMultiplier, 10)
                /\ character.gold >= paid
                /\ character'.inventory.items =
                     Append(character.inventory.items, shop.items[itemIndex])

\* A SELL either trades nothing or gives the held item for the rounded-down
\* price
SellPrice ==
    lastAction'.type = "SELL" =>
      \/ NoTrade
      \/ /\ lastAction'.npcId \in DOMAIN npcs
         /\ Has(npcs[lastAction'.npcId], "shop")
         /\ LET shop == npcs[lastAction'.npcId].shop
                held == character.inventory.items
                itemIndex == FindIndex(held, LAMBDA i : i.id = lastAction'.itemId)
                earned == character'.gold - character.gold
            IN  /\ itemIndex # 0
                /\ IsFloor(earned, held[itemIndex].value * shop.sellMultiplier, 10)
                /\ character'.inventory.items = RemoveAt(held, itemIndex)

\* C17: a BUY that trades takes exactly ceil(value x buyMultiplier) gold, which
\* the character had; a SELL that trades gives exactly
\* floor(value x sellMultiplier) gold; the gold is never negative.
C17_ExactPrices ==
    /\ character.gold >= 0
    /\ [][BuyPrice /\ SellPrice /\ character'.gold >= 0]_vars

\* The longsword of value 15 was bought for 23 gold and sold back for 7
C17_Witness ==
    /\ lastAction = [type |-> "SELL", itemId |-> "shop-longsword", npcId |-> "shopkeeper"]
    /\ Len(gameLog) >= 2
    /\ LastLog(1).message = <<"you sell", "shop-longsword">>
    /\ LastLog(2).message = <<"you buy", "shop-longsword">>
    /\ character.gold = NewGame.character.gold - 23 + 7

\* The stock of the merchants, the others having none
StockOf(npc) == IF Has(npc, "shop") THEN npc.shop.items ELSE <<>>

\* Where the items of the world are: in the inventory of the character c, on
\* the ground of the locations l and in the stock of the shops of the people n
Places(c, l, n) ==
    {<<"inventory", "", i>> : i \in DOMAIN c.inventory.items}
      \cup UNION {{<<"ground", id, i>> : i \in DOMAIN l[id].items} : id \in DOMAIN l}
      \cup UNION {{<<"stock", id, i>> : i \in DOMAIN StockOf(n[id])} : id \in DOMAIN n}

ItemAt(c, l, n, place) ==
    CASE place[1] = "inventory" -> c.inventory.items[place[3]]
      [] place[1] = "ground" -> l[place[2]].items[place[3]]
      [] place[1] = "stock" -> StockOf(n[place[2]])[place[3]]

\* How many times each item of the world occurs in it
WorldItems(c, l, n) ==
    LET places == Places(c, l, n)
    IN  [item \in {ItemAt(c, l, n, place) : place \in places} |->
           Cardinality({place \in places : ItemAt(c, l, n, place) = item})]

\* No item is in two places, or twice in one: the places hold as many
\* different items as there are places
NoItemTwice ==
    LET places == Places(character, locations, npcs)
    IN  Cardinality({ItemAt(character, locations, npcs, place) : place \in places})
          = Cardinality(places)

\* One item leaves the list source and is appended to the list destination
MovesOne(source, after, destination, into) ==
    \E i \in DOMAIN source :
      /\ after = RemoveAt(source, i)
      /\ into = Append(destination, source[i])

Ground(place) == place[currentLocationId].items

\* The lists of items the step leaves as they were
SameInventory == character'.inventory.items = character.inventory.items

SameGround == \A id \in DOMAIN locations : locations'[id].items = locations[id].items

SameStock == \A id \in DOMAIN npcs : StockOf(npcs'[id]) = StockOf(npcs[id])

\* A TAKE, DROP, BUY or SELL moves one item from its source to its
\* destination, or none; the other lists stay as they were
ItemMoves ==
    LET kind == lastAction'.type
        held == character.inventory.items
        heldAfter == character'.inventory.items
    IN  /\ kind = "TAKE" =>
             /\ SameStock
             /\ \A id \in DOMAIN locations \ {currentLocationId} :
                  locations'[id].items = locations[id].items
             /\ \/ SameInventory /\ SameGround
                \/ MovesOne(Ground(locations), Ground(locations'), held, heldAfter)
        /\ kind = "DROP" =>
             /\ SameStock
             /\ \A id \in DOMAIN locations \ {currentLocationId} :
                  locations'[id].items = locations[id].items
             /\ \/ SameInventory /\ SameGround
                \/ MovesOne(held, heldAfter, Ground(locations), Ground(locations'))
        /\ kind \in {"BUY", "SELL"} =>
             /\ SameGround
             /\ \/ SameInventory /\ SameStock
                \/ /\ lastAction'.npcId \in DOMAIN npcs
                   /\ \A id \in DOMAIN npcs \ {lastAction'.npcId} :
                        StockOf(npcs'[id]) = StockOf(npcs[id])
                   /\ LET stock == StockOf(npcs[lastAction'.npcId])
                          stockAfter == StockOf(npcs'[lastAction'.npcId])
                      IN  IF kind = "BUY"
                          THEN MovesOne(stock, stockAfter, held, heldAfter)
                          ELSE MovesOne(held, heldAfter, stock, stockAfter)

\* The items of the world change only when a potion held is used, and then
\* by that potion alone
OnlyPotionsVanish ==
    \/ SameInventory /\ SameGround /\ SameStock
    \/ WorldItems(character', locations', npcs') = WorldItems(character, locations, npcs)
    \/ /\ lastAction'.type = "USE"
       /\ SameGround /\ SameStock
       /\ \E i \in DOMAIN character.inventory.items :
            /\ character.inventory.items[i].id = lastAction'.itemId
            /\ character.inventory.items[i].type = "potion"
            /\ character'.inventory.items = RemoveAt(character.inventory.items, i)

\* C18: each of TAKE, DROP, BUY and SELL takes exactly one item from its
\* source (ground, inventory, stock) and appends it to its destination, or
\* moves nothing; no item is ever in two places; only the USE of a potion takes
\* an item out of the world.
C18_ItemsAreConserved ==
    /\ NoItemTwice
    /\ [][ItemMoves /\ OnlyPotionsVanish /\ NoItemTwice']_vars

\* The potion was sold to the shopkeeper and the staff dropped in the square:
\* each is in its new place only, and the world holds what it held
C18_Witness ==
    /\ lastAction = [type |-> "DROP", itemId |-> "wizard-staff"]
    /\ Len(gameLog) >= 2
    /\ LastLog(1).message = <<"you drop", "wizard-staff">>
    /\ LastLog(2).message = <<"you sell", "wizard-potion">>
    /\ "wizard-staff" \in {Ground(locations)[i].id : i \in DOMAIN Ground(locations)}
    /\ "wizard-potion" \in {npcs["shopkeeper"].shop.items[i].id :
                              i \in DOMAIN npcs["shopkeeper"].shop.items}
    /\ {character.inventory.items[i].id : i \in DOMAIN character.inventory.items}
         \cap {"wizard-staff", "wizard-potion"} = {}
    /\ WorldItems(character, locations, npcs)
         = WorldItems(NewGame.character, NewGame.locations, NewGame.npcs)

\* The nearest whole number of tenths of a pound to the weight w
Tenths(w) == (w + Grain \div 2) \div Grain

\* C19: in every reachable state inventory.currentWeight equals the sum of
\* the weights of the items in inventory.items, added in the order of the
\* list as createCharacter adds them.
C19_WeightIsSum ==
    character.inventory.currentWeight = SumWeights(character.inventory.items)

\* The current weight and the sum are the same number of tenths of a pound
WeightIsSumInTenths ==
    Tenths(character.inventory.currentWeight)
      = Tenths(SumWeights(character.inventory.items))

\* The key of 0.2 pounds was taken and the staff of 4 pounds dropped: the
\* weight is 11.5 + 0.2 - 4 as the doubles give it, one unit in the last place
\* below the sum 3 + 4 + 0.5 + 0.2
DriftedWeight ==
    /\ lastAction = [type |-> "DROP", itemId |-> "wizard-staff"]
    /\ [i \in DOMAIN character.inventory.items |-> character.inventory.items[i].id]
         = <<"wizard-spellbook", "wizard-robes", "wizard-potion", "ancient-key">>
    /\ character.inventory.currentWeight = Pounds(77) - 640
    /\ SumWeights(character.inventory.items) = Pounds(77)

\* C20: every call leaves the entries the log had where they were and as
\* they were, and appends at least one entry after them.
C20_LogIsAppendOnly ==
    [][/\ Len(gameLog') > Len(gameLog)
       /\ SubSeq(gameLog', 1, Len(gameLog)) = gameLog]_vars

\* After a first call that logged one entry, LOOK appended four more in one
\* call: the entries of the new game and of the first call are still the
\* first ones
C20_Witness ==
    /\ calls = 2
    /\ lastAction = [type |-> "LOOK"]
    /\ Len(gameLog) = Len(NewGame.gameLog) + 5
    /\ SubSeq(gameLog, 1, Len(NewGame.gameLog)) = NewGame.gameLog
    /\ [k \in 1..4 |-> LastLog(5 - k).message[1]]
         = <<"name", "description", "exits", "present">>

----------------------------------------------------------------------------
(* Claims about the functions of character.ts and combat.ts, on SpecCalls  *)

\* The step is a call of awardExperience
Awards == lastAction'.type = "awardExperience"

\* The hit points that levels gained can add: for each level one roll of the
\* hit die plus the constitution modifier, and at least 1
RECURSIVE LevelGains(_, _, _)
LevelGains(levels, hitDie, constitutionModifier) ==
    IF levels <= 0 THEN {0}
    ELSE {Max(1, roll + constitutionModifier) + rest :
            roll \in 1..hitDie,
            rest \in LevelGains(levels - 1, hitDie, constitutionModifier)}

ExperienceBelowLevel == character.experience < character.level * 1000

AwardRule ==
    LET reached == character'.level
        gain == character'.hitPoints.current - character.hitPoints.current
    IN  /\ character'.experience = character.experience + lastAction'.xp
        /\ reached >= character.level
        /\ character'.experience < reached * 1000
        /\ \A level \in character.level..(reached - 1) :
             character'.experience >= level * 1000
        /\ gain \in LevelGains(reached - character.level,
                               getClass(character.class).hitDie,
                               character.abilityModifiers.constitution)
        /\ character'.hitPoints.max - character.hitPoints.max = gain
        /\ lastAction'.leveledUp = (reached > character.level)

\* C21: awardExperience adds xp to the experience and raises the level to
\* the smallest level, not below the old one, whose thousand times is above
\* the experience; the levels gained add one amount to current and max hit
\* points, for each level max(1, hit-die roll + constitution modifier);
\* leveledUp tells whether the level rose; and the experience is below
\* level x 1000 in every state.
C21_AwardExperience ==
    /\ ExperienceBelowLevel
    /\ [][Awards => AwardRule /\ ExperienceBelowLevel']_vars

\* One award of 2500 XP took a new character from level 1 to level 3, with
\* two hit-die rolls added to the hit points
C21_Witness ==
    /\ calls = 1
    /\ lastAction = [type |-> "awardExperience", xp |-> 2500, leveledUp |-> TRUE]
    /\ character.level = 3
    /\ character.experience = 2500
    /\ character.hitPoints.max
         >= calculateMaxHitPoints(getClass(character.class).hitDie,
                                  character.abilityModifiers.constitution) + 2
    /\ character.hitPoints.current = character.hitPoints.max

\* What makeAttackRoll returned in this step is what the claim tells of the
\* roll, the attack bonus and the armor class
AttackRollRule ==
    LET call == lastAction'
        result == call.result
    IN  /\ result.roll \in 1..20
        /\ result.total = result.roll + call.attackBonus
        /\ result.hits = (result.total >= call.targetAC \/ result.roll = 20)
        /\ result.critical = (result.roll = 20)
        /\ result.criticalFail = (result.roll = 1)

\* The totals rollDamage can give: the dice sum to anything between their
\* number and that many times the die, and a total below 0 counts as 0
RolledTotals(damage) ==
    {Max(0, damage.modifier + sum) :
       sum \in damage.numDice..(damage.numDice * damage.dieSize)}

\* The damage expression of the attacker of this step
AttackDamage ==
    IF lastAction'.type = "characterAttack"
    THEN getWeaponDamage(character)
    ELSE npcs[lastAction'.enemyId].stats.damage

AttackRule ==
    LET result == lastAction'.result
    IN  /\ result.damage >= 0
        /\ result.damage > 0 => result.hits
        /\ result.critical
             => \E total \in RolledTotals(AttackDamage) : result.damage = 2 * total
        /\ result.hits /\ ~result.critical => result.damage \in RolledTotals(AttackDamage)

\* C22: makeAttackRoll of a d20 roll r, an attack bonus b and an armor class
\* ac reports hits = (r + b >= ac or r = 20), critical = (r = 20) and
\* criticalFail = (r = 1); characterAttack and enemyAttack deal damage only
\* on a hit, a critical deals twice one rolled total, and no damage is
\* negative.
C22_AttackRolls ==
    [][/\ lastAction'.type = "makeAttackRoll" => AttackRollRule
       /\ lastAction'.type \in {"characterAttack", "enemyAttack"} => AttackRule]_vars

\* A natural 20 with a bonus of -1 against armor class 27: the total of 19
\* is far below the armor class, and the roll hits and is critical
C22_Witness ==
    /\ lastAction.type = "makeAttackRoll"
    /\ lastAction.attackBonus = -1
    /\ lastAction.targetAC = 27
    /\ lastAction.result
         = [roll |-> 20, total |-> 19, hits |-> TRUE, critical |-> TRUE,
            criticalFail |-> FALSE]

\* What initiateCombat returned in this step, for the encounter list and the
\* d20 rolls of the call: the combatants are the player and then the enemies
\* of the list, the initiative of each is its roll plus its dexterity
\* modifier (an enemy's is derived from its armor class)
InitiateRule ==
    LET enemyIds == lastAction'.enemyIds
        n == Len(enemyIds)
        order == combat'.turnOrder
        entrants == <<character.id>> \o enemyIds
        modifier(k) ==
          IF k = 1 THEN character.abilityModifiers.dexterity
          ELSE FloorDiv(npcs[enemyIds[k - 1]].stats.armorClass - 10, 2)
        initiative(k) == lastAction'.rolls[k] + modifier(k)
        place(id) == CHOOSE k \in 1..(n + 1) : entrants[k] = id
    IN  /\ combat'.active
        /\ combat'.round = 1
        /\ combat'.currentTurnIndex = 0
        /\ combat'.totalEnemyCount = n
        /\ combat'.enemies = [i \in 1..n |-> npcs[enemyIds[i]]]
        /\ combat'.enemyMaxHPs = [id \in Range(enemyIds) |-> npcs[id].stats.hitPoints]
        /\ Len(order) = n + 1
        /\ Range(order) = Range(entrants)
        /\ \A p, q \in 1..(n + 1) :
             p < q => \/ initiative(place(order[p])) > initiative(place(order[q]))
                      \/ /\ initiative(place(order[p])) = initiative(place(order[q]))
                         /\ place(order[p]) < place(order[q])

\* C30: initiateCombat(character, enemies) returns active = true, round = 1,
\* currentTurnIndex = 0, totalEnemyCount = the number of enemies, enemyMaxHPs
\* = the starting hit points of each enemy, and a turn order that holds the
\* player and every enemy once, highest initiative first, those of equal
\* initiative in the order player, then the enemies as the list has them.
C30_InitiateCombat ==
    [][lastAction'.type = "initiateCombat" => InitiateRule]_vars

\* The player rolled 2 with a modifier of +2, the boss 1 with +3 and the
\* skeleton 3 with +1: all three have initiative 4 and the turn order is the
\* player, then the enemies as listed
C30_Witness ==
    /\ lastAction.type = "initiateCombat"
    /\ lastAction.enemyIds = <<"dungeon-boss", "skeleton-warrior">>
    /\ lastAction.rolls = <<2, 1, 3>>
    /\ character.abilityModifiers.dexterity = 2
    /\ combat.active
    /\ combat.turnOrder = <<character.id, "dungeon-boss", "skeleton-warrior">>

----------------------------------------------------------------------------
(* Claims about moving, parse errors, refusals, resting and looking        *)

\* Where the MOVE of this step leads: Undefined when the direction is not
\* mapped
Destination ==
    getConnectedLocation(locations[currentLocationId], lastAction'.direction)

MoveSucceeds ==
    /\ lastAction'.type = "MOVE"
    /\ isAlive(character) /\ ~combat.active
    /\ Destination \in DOMAIN locations

\* The hostile NPCs with hit points left that the destination lists, as
\* listed
LiveHostiles ==
    LET listed == locations[Destination].npcs
        live == {i \in 1..Len(listed) :
                   /\ listed[i] \in DOMAIN npcs
                   /\ npcs[listed[i]].hostile
                   /\ Has(npcs[listed[i]], "stats")
                   /\ npcs[listed[i]].stats.hitPoints > 0}
    IN  [k \in 1..Cardinality(live) |->
           listed[CHOOSE i \in live : Cardinality({j \in live : j <= i}) = k]]

\* The attacks of enemies this step wrote to the log
EnemyAttacks ==
    Cardinality({i \in 1..Len(Appended) : Appended[i].message[1] = "enemy"})

\* The place of id in the turn order of the combat the step leaves
TurnOf(id) == CHOOSE p \in 1..Len(combat'.turnOrder) : combat'.turnOrder[p] = id

\* The combat the MOVE began: against all live hostiles, and back with the
\* turn of the player after every enemy before the player has attacked; or
\* ended by the fall of the character in those enemy turns
CombatBegun ==
    /\ \E i \in 1..Len(Appended) : Appended[i].message = <<"attacks you">>
    /\ \/ /\ isAlive(character')
          /\ combat'.active
          /\ combat'.totalEnemyCount = Len(LiveHostiles)
          /\ [i \in 1..Len(combat'.enemies) |-> combat'.enemies[i].id] = LiveHostiles
          /\ combat'.round = 1
          /\ isPlayerTurn(combat', character.id)
          /\ EnemyAttacks = TurnOf(character.id) - 1
       \/ /\ ~isAlive(character')
          /\ ~combat'.active
          /\ EnemyAttacks \in 1..Len(LiveHostiles)

MoveRule ==
    /\ currentLocationId' = Destination
    /\ locations'[Destination].visited
    /\ activeDialogue' = Null
    /\ IF Len(LiveHostiles) > 0 THEN CombatBegun
       ELSE ~combat'.active /\ EnemyAttacks = 0

\* C23: a MOVE outside combat in a mapped direction sets currentLocationId
\* to the destination, marks it visited and clears activeDialogue; if the
\* destination lists hostile NPCs with hit points left, a combat begins
\* against all of them at once and the enemies before the player in the turn
\* order attack before the call returns; otherwise combat stays inactive.
C23_MoveStartsCombat ==
    [][MoveSucceeds => MoveRule]_vars

\* The move down into the dungeon that lists the skeleton, the guardian and
\* the boss: the combat is against the two hostile ones, the boss went
\* first and missed, and it is the turn of the player
C23_Witness ==
    /\ lastAction = [type |-> "MOVE", direction |-> "down"]
    /\ currentLocationId = "ruins-dungeon"
    /\ combat.active
    /\ combat.totalEnemyCount = 2
    /\ combat.turnOrder[1] = "dungeon-boss"
    /\ combat.turnOrder[2] = character.id
    /\ isPlayerTurn(combat, character.id)
    /\ isAlive(character)

\* The words of the command typed in this step
TypedWords ==
    IF lastAction'.type = "WORDS" THEN lastAction'.words
    ELSE <<ToString(lastAction'.input)>>

\* The step is a command that parseCommand refused
ParseFails ==
    /\ lastAction'.type \in {"WORDS", "COMMAND"}
    /\ ~parseCommand(TypedWords, GameState).ok

\* C24: when parseCommand returns a parse error, the state handleCommand
\* sets differs from the one before by one appended entry of type error
\* that carries the message of the parser: processAction is not called.
C24_ParseErrorsAreLogged ==
    [][ParseFails
         => /\ OnlyLogChanges
            /\ Logs("error")
            /\ gameLog'[Len(gameLog')].message
                 = parseCommand(TypedWords, GameState).error]_vars

\* In the village square "talk nobody" found no one of that name: the log
\* of the new game has one more entry, the error of the parser
C24_Witness ==
    /\ calls = 1
    /\ lastAction = [type |-> "WORDS", words |-> <<"talk", "nobody">>]
    /\ gameLog = Append(NewGame.gameLog,
                        [message |-> <<"no one called", "nobody">>, type |-> "error"])
    /\ [GameState EXCEPT !.gameLog = NewGame.gameLog] = NewGame

----------------------------------------------------------------------------
(* Claims about what processAction returns for every action                *)

\* The ids of the items held, lying in a location or kept in a shop, and
\* one that no item has
KnownItemIds(s) ==
    ItemIds(s.character.inventory.items)
      \cup UNION {ItemIds(s.locations[id].items) : id \in DOMAIN s.locations}
      \cup UNION {ItemIds(s.npcs[id].shop.items)
                  : id \in {n \in DOMAIN s.npcs : Has(s.npcs[n], "shop")}}
      \cup {"nothing"}

\* The ids of the NPCs, and one that no NPC has
NpcIds(s) == DOMAIN s.npcs \cup {"nobody"}

\* The action vocabulary, with every id and direction
Vocabulary(s) ==
    {[type |-> "MOVE", direction |-> d] : d \in VALID_DIRECTIONS \cup {"sideways"}}
      \cup {[type |-> "TALK", npcId |-> n] : n \in NpcIds(s)}
      \cup {[type |-> "DIALOGUE_SELECT", optionIndex |-> i] : i \in -2..4}
      \cup {[type |-> t, itemId |-> i] : t \in {"TAKE", "DROP", "USE"}, i \in KnownItemIds(s)}
      \cup {[type |-> "ATTACK", targetId |-> n] : n \in NpcIds(s)}
      \cup {[type |-> t, itemId |-> i, npcId |-> n]
            : t \in {"BUY", "SELL"}, i \in KnownItemIds(s), n \in NpcIds(s)}
      \cup {[type |-> t] : t \in {"DEFEND", "FLEE", "REST", "LOOK", "INVENTORY",
                                   "STATS", "SAVE_GAME"}}
      \cup {[type |-> "LOAD_GAME", saveId |-> "save"]}

\* C25: in every reachable state processAction returns a state for every
\* action of the vocabulary, whatever item, NPC or target and whatever
\* direction it names: no call ends in an exception, and the state returned
\* has a longer log than the one given, so that every refusal is logged.
C25_ProcessActionReturns ==
    \A action \in Vocabulary(GameState) :
      LET returned == processAction(GameState, action)
      IN  /\ returned # <<>>
          /\ \A k \in 1..Len(returned) : Len(returned[k].gameLog) > Len(gameLog)

\* The village guard, who has no stats, was attacked in the new game: the
\* call returned the state with one more entry, the warning
C25_Witness ==
    /\ Len(gameLog) = Len(NewGame.gameLog) + 1
    /\ lastAction = [type |-> "ATTACK", targetId |-> "village-guard"]
    /\ ~Has(npcs["village-guard"], "stats")
    /\ gameLog[Len(gameLog)] =
         [message |-> <<"cannot attack", "village-guard">>, type |-> "warning"]
    /\ ~combat.active

----------------------------------------------------------------------------
(* Claims about resting, looking and attacking whom one cannot             *)

\* What a REST step may change beside the log: the current hit points
RestFrame ==
    /\ [character' EXCEPT !.hitPoints.current = character.hitPoints.current] = character
    /\ UNCHANGED <<currentLocationId, locations, npcs, quests, combat, activeDialogue>>

\* The conditions of a rest that heals
MayRest ==
    /\ ~combat.active
    /\ currentLocationId \in {"tavern-rooms", "forest-clearing"}
    /\ character.hitPoints.current < character.hitPoints.max

\* REST changes the hit points only when combat is inactive, the location is
\* the tavern rooms or the forest clearing and the current hit points are
\* below the maximum, and then the current hit points become the maximum; in
\* every other case they are unchanged, and nothing but them and the log
\* changes.
RestHealsWhenItMay ==
    [][lastAction'.type = "REST"
         => /\ RestFrame
            /\ IF MayRest
               THEN character'.hitPoints.current = character.hitPoints.max
               ELSE character'.hitPoints.current = character.hitPoints.current]_vars

\* C26, for a character that is alive: REST changes the hit points only when
\* combat is inactive, the location is the tavern rooms or the forest
\* clearing and the current hit points are below the maximum, and then the
\* current hit points become the maximum; in every other case, that of a
\* fallen character too, they are unchanged; nothing but them and the log
\* changes.
C26_RestHealsTheLiving ==
    [][lastAction'.type = "REST"
         => /\ RestFrame
            /\ IF MayRest /\ isAlive(character)
               THEN character'.hitPoints.current = character.hitPoints.max
               ELSE character'.hitPoints.current = character.hitPoints.current]_vars

\* In the tavern rooms the character with 1 hit point rested and has them all
C26_Witness ==
    /\ calls = 1
    /\ lastAction = [type |-> "REST"]
    /\ currentLocationId = "tavern-rooms"
    /\ ~combat.active
    /\ character.hitPoints.current = character.hitPoints.max
    /\ gameLog = Append(NewGame.gameLog, [message |-> <<"you rest">>, type |-> "success"])

\* REST was called for the character fallen in the tavern rooms: the fight
\* is over, the hit points are below the maximum, and they stay 0
FallenAtRest ==
    /\ calls = 1
    /\ lastAction = [type |-> "REST"]
    /\ currentLocationId = "tavern-rooms"
    /\ ~combat.active
    /\ character.hitPoints.current = 0

\* The step is a LOOK, INVENTORY or STATS of a living character
Looks ==
    /\ lastAction'.type \in {"LOOK", "INVENTORY", "STATS"}
    /\ isAlive(character)

\* C27: LOOK, INVENTORY and STATS of a living character are accepted in
\* every state, in combat and in a dialogue too: they append entries of type
\* info, none that refuses, and change nothing but the log; the turn cursor
\* and the round stay, no enemy acts, the dialogue goes on.
C27_LookingChangesOnlyTheLog ==
    [][Looks
         => /\ OnlyLogChanges
            /\ Len(gameLog') > Len(gameLog)
            /\ SubSeq(gameLog', 1, Len(gameLog)) = gameLog
            /\ \A i \in 1..Len(Appended) : Appended[i].type = "info"]_vars

\* STATS was called on the player's turn of the second round of the duel:
\* the fight stands as it stood, the log has the five lines more
C27_Witness ==
    /\ calls = 1
    /\ lastAction = [type |-> "STATS"]
    /\ combat = DuelGame.combat
    /\ combat.active /\ combat.round = 2 /\ combat.currentTurnIndex = 0
    /\ character = DuelGame.character
    /\ Len(gameLog) = Len(DuelGame.gameLog) + 5

\* The step is an ATTACK, in combat, on an id that no live enemy has
AttacksNoEnemy ==
    /\ lastAction'.type = "ATTACK"
    /\ combat.active
    /\ lastAction'.targetId \notin ItemIds(combat.enemies)

\* The step is an ATTACK, outside combat, on an NPC without stats or on an
\* id that no NPC has
AttacksNoFighter ==
    /\ lastAction'.type = "ATTACK"
    /\ ~combat.active
    /\ \/ lastAction'.targetId \notin DOMAIN npcs
       \/ ~Has(npcs[lastAction'.targetId], "stats")

\* C28: an ATTACK in combat on an id that is not among the live enemies
\* appends a warning and leaves the combat (enemies, turn order, cursor,
\* round) and the character as they are: the turn is not taken and no enemy
\* acts.  An ATTACK outside combat on an NPC without stats or on an unknown
\* id leaves combat inactive.
C28_AttackOnNoEnemy ==
    [][/\ AttacksNoEnemy => OnlyLogChanges /\ Logs("warning")
       /\ AttacksNoFighter => ~combat'.active /\ combat' = combat]_vars

\* In the duel with the skeleton warrior the player attacked "nobody": the
\* warning is logged, the fight and the character are those of before
C28_Witness ==
    /\ calls = 1
    /\ lastAction = [type |-> "ATTACK", targetId |-> "nobody"]
    /\ combat = DuelGame.combat
    /\ combat.active
    /\ character = DuelGame.character
    /\ gameLog = Append(DuelGame.gameLog,
                        [message |-> <<"not in this fight">>, type |-> "warning"])

----------------------------------------------------------------------------
(* Claims about potions                                                    *)

\* The place of the item used in the inventory, 0 if it is not held
UsedIndex ==
    FindIndex(character.inventory.items, LAMBDA i : i.id = lastAction'.itemId)

\* The step is a USE, by a living character, of a usable item it holds
UsesHeld ==
    /\ lastAction'.type = "USE"
    /\ isAlive(character)
    /\ UsedIndex # 0
    /\ character.inventory.items[UsedIndex].usable

\* The character after a potion that healed the amount
Quaffed(healAmount) ==
    LET item == character.inventory.items[UsedIndex]
    IN  [character EXCEPT
           !.hitPoints.current = Min(character.hitPoints.max, @ + healAmount),
           !.inventory.items = RemoveAt(@, UsedIndex),
           !.inventory.currentWeight = Minus(@, Pounds(item.weight))]

\* The step uses the item as told, a potion healing one of the amounts
UseRule(healAmounts) ==
    IF character.inventory.items[UsedIndex].type = "potion"
    THEN /\ \E healAmount \in healAmounts : character' = Quaffed(healAmount)
         /\ UNCHANGED <<currentLocationId, locations, npcs, quests, combat, activeDialogue>>
    ELSE OnlyLogChanges

\* C29: using a held potion heals 2 x r + 2 hit points for one roll r of a
\* d4 (4, 6, 8 or 10 before the clamp at the maximum), removes that potion
\* from the inventory and takes its weight off currentWeight; using another
\* usable item changes nothing but the log.
C29_PotionHealsTwiceTheRoll ==
    [][UsesHeld => UseRule({2 * r + 2 : r \in rollDice(4)})]_vars

\* The same with two rolls of a d4 added: 4 to 10 hit points before the clamp
PotionHealsTwoRolls ==
    [][UsesHeld => UseRule({r1 + r2 + 2 : r1, r2 \in rollDice(4)})]_vars

\* The wizard with 1 hit point of 8 used the potion and has 6: healed by 5
HealedByFive ==
    /\ calls = 1
    /\ lastAction = [type |-> "USE", itemId |-> "wizard-potion"]
    /\ character.hitPoints = [current |-> 6, max |-> 8]
    /\ "wizard-potion" \notin ItemIds(character.inventory.items)

\* The amulet was taken and used: nothing special happened
UsedTheAmulet ==
    /\ calls = 2
    /\ lastAction = [type |-> "USE", itemId |-> "magic-amulet"]
    /\ "magic-amulet" \in ItemIds(character.inventory.items)
    /\ gameLog[Len(gameLog)].type = "info"

----------------------------------------------------------------------------
(* Claims about the shape of the combat state and the turns of a fight     *)

\* The cursor is on the player
OnPlayerTurn ==
    /\ combat.currentTurnIndex \in 0..(Len(combat.turnOrder) - 1)
    /\ combat.turnOrder[combat.currentTurnIndex + 1] = character.id

\* The step logs the refusal of an action out of turn
RefusedOutOfTurn ==
    \E i \in 1..Len(Appended) : Appended[i].message = <<"not your turn">>

\* C31: in every state with combat active the cursor is a valid index of the
\* turn order and points at the player: processAction never returns on the
\* turn of an enemy, and so ATTACK and DEFEND are never refused as out of
\* turn.
C31_ReturnsOnPlayerTurn ==
    /\ [](combat.active => OnPlayerTurn)
    /\ [][~RefusedOutOfTurn]_vars

\* The boss went before the player and the skeleton warrior after; the player
\* defended, both enemies have attacked and missed, and it is the turn of
\* the player again, in the third round
C31_Witness ==
    /\ lastAction = [type |-> "DEFEND"]
    /\ combat.active
    /\ combat.turnOrder = <<"dungeon-boss", character.id, "skeleton-warrior">>
    /\ combat.currentTurnIndex = 1
    /\ combat.round = 3
    /\ Len(gameLog) = Len(NewGame.gameLog) + 3

\* The ids of the enemies of the combat, as listed
EnemyIds == [i \in 1..Len(combat.enemies) |-> combat.enemies[i].id]

\* How often the id stands in the sequence
Times(id, ids) == Cardinality({i \in 1..Len(ids) : ids[i] = id})

\* The combat that is not active is the empty one
CombatAtRest ==
    /\ combat.enemies = <<>>
    /\ combat.turnOrder = <<>>
    /\ DOMAIN combat.enemyMaxHPs = {}
    /\ combat.totalEnemyCount = 0
    /\ combat.currentTurnIndex = 0
    /\ combat.round = 0

\* The active combat has live enemies, and the turn order is the player and
\* the live enemies, each once
CombatUnderWay ==
    /\ combat.enemies # <<>>
    /\ \A i \in 1..Len(combat.enemies) :
         /\ Has(combat.enemies[i], "stats")
         /\ combat.enemies[i].stats.hitPoints > 0
         /\ Times(combat.enemies[i].id, EnemyIds) = 1
    /\ combat.round >= 1
    /\ combat.totalEnemyCount >= Len(combat.enemies)
    /\ Times(character.id, combat.turnOrder) = 1
    /\ \A i \in 1..Len(combat.enemies) : Times(combat.enemies[i].id, combat.turnOrder) = 1
    /\ Len(combat.turnOrder) = Len(combat.enemies) + 1

\* C32: in every reachable state a combat that is not active has no enemies,
\* no turn order and no starting hit points, and its count, cursor and round
\* are 0; an active combat has at least one enemy, every enemy listed has
\* stats with hit points above 0, the round is at least 1, the count of the
\* start is not below the number of live enemies, and the turn order holds
\* the id of the player once and the ids of the live enemies, each once, and
\* nothing else.
C32_CombatShape ==
    IF combat.active THEN CombatUnderWay ELSE CombatAtRest

\* The boss, who went first, is defeated: the fight goes on against the
\* skeleton warrior, of two enemies at the start, in a turn order of two
C32_Witness ==
    /\ lastAction = [type |-> "ATTACK", targetId |-> "dungeon-boss"]
    /\ combat.active
    /\ EnemyIds = <<"skeleton-warrior">>
    /\ combat.totalEnemyCount = 2
    /\ Len(combat.turnOrder) = 2
    /\ "dungeon-boss" \notin Range(combat.turnOrder)

\* The step is an action that takes the turn of the player in a fight with
\* several enemies: an ATTACK on one of them, a DEFEND or a FLEE
TakesTheTurn ==
    /\ combat.active
    /\ Len(combat.enemies) >= 2
    /\ \/ lastAction'.type \in {"DEFEND", "FLEE"}
       \/ /\ lastAction'.type = "ATTACK"
          /\ lastAction'.targetId \in Range(EnemyIds)

\* The attacks of the enemy that the step wrote to the log
AttacksOf(id) ==
    Cardinality({i \in 1..Len(Appended) :
                   /\ Appended[i].message[1] = "enemy"
                   /\ Appended[i].message[2] = id})

\* The fight goes on after the step: every enemy alive has attacked once
EachEnemyOnce ==
    combat'.active =>
      \A i \in 1..Len(combat'.enemies) : AttacksOf(combat'.enemies[i].id) = 1

\* C33: in a fight with several enemies, between an action of the player
\* that takes the turn (ATTACK, DEFEND, failed FLEE) and the next, every
\* enemy still alive after the action attacks exactly once, also when the
\* attack of the player has just defeated an enemy that stood before the
\* player in the turn order.
C33_EveryEnemyActsOnce ==
    [][TakesTheTurn => EachEnemyOnce]_vars

\* The player's place in the turn order, from 1
PlayerPlace == CHOOSE p \in 1..Len(combat.turnOrder) : combat.turnOrder[p] = character.id

\* The step defeats an enemy that stood before the player in the turn order
DefeatsOneBefore ==
    \E p \in 1..(PlayerPlace - 1) : combat.turnOrder[p] \notin Range(combat'.turnOrder)

\* The same but for the steps that defeat an enemy standing before the player
EachEnemyOnceButAfterSuchDefeat ==
    [][TakesTheTurn /\ ~DefeatsOneBefore => EachEnemyOnce]_vars

\* The boss went first, the player second, the skeleton warrior last; the
\* player defeated the boss, and the third round has begun on the turn of
\* the player without an attack of the skeleton warrior
SkeletonLostItsTurn ==
    /\ lastAction = [type |-> "ATTACK", targetId |-> "dungeon-boss"]
    /\ combat.active
    /\ combat.turnOrder = <<character.id, "skeleton-warrior">>
    /\ combat.currentTurnIndex = 0
    /\ combat.round = 3
    /\ Len(gameLog) = Len(NewGame.gameLog) + 2
    /\ gameLog[Len(gameLog)].message = <<"has been defeated", "dungeon-boss">>

----------------------------------------------------------------------------
(* Claims about combat and dialogue, and about the NPCs of the state       *)

\* C34: combat and dialogue exclude each other: in no reachable state is
\* combat active while a conversation is open, not after an ATTACK issued
\* in a conversation either.
C34_CombatExcludesDialogue ==
    ~(combat.active /\ activeDialogue # Null)

\* The same for the states that no ATTACK begun in a conversation has led to
CombatExcludesDialogueButAttack ==
    [][~(lastAction'.type = "ATTACK" /\ activeDialogue # Null)
         => (C34_CombatExcludesDialogue => C34_CombatExcludesDialogue')]_vars

\* In the conversation with the village guard the player attacked the
\* skeleton warrior: the fight is on and the conversation still open
FightsInConversation ==
    /\ calls = 2
    /\ lastAction = [type |-> "ATTACK", targetId |-> "skeleton-warrior"]
    /\ combat.active
    /\ activeDialogue # Null
    /\ activeDialogue.npcId = "village-guard"

\* The stats of every NPC of the state are after the step what they were
StatsKept ==
    /\ DOMAIN npcs' = DOMAIN npcs
    /\ \A id \in DOMAIN npcs :
         /\ Has(npcs'[id], "stats") = Has(npcs[id], "stats")
         /\ Has(npcs[id], "stats") => npcs'[id].stats = npcs[id].stats

\* A step of a fight: one that begins it, goes on with it or ends it
InFight == combat.active \/ combat'.active

FightBegins == ~combat.active /\ combat'.active

\* Every enemy of the fight begun has the hit points of its NPC as its
\* greatest, and stands at them but for the blow that opened the fight
FromFullHP ==
    \A i \in 1..Len(combat'.enemies) :
      LET enemy == combat'.enemies[i]
          full  == NewGame.npcs[enemy.id].stats.hitPoints
      IN  /\ combat'.enemyMaxHPs[enemy.id] = full
          /\ enemy.stats.hitPoints <= full
          /\ lastAction'.type = "MOVE" => enemy.stats.hitPoints = full

\* C35: no action changes the stats of an NPC of state.npcs: the damage of a
\* fight goes to the enemies of the combat state alone, so the steps of a
\* fight, a successful flight among them, leave state.npcs as it was before
\* the fight, and a new fight against the same NPC begins from its full hit
\* points.
C35_NpcStatsAreKept ==
    [][/\ StatsKept
       /\ InFight => npcs' = npcs
       /\ FightBegins => FromFullHP]_vars

\* Having fled from the skeleton warrior and the boss, each left with 1 hit
\* point, the character attacks the skeleton warrior again: it stands alone
\* and with more
C35_Witness ==
    /\ calls = 2
    /\ lastAction = [type |-> "ATTACK", targetId |-> "skeleton-warrior"]
    /\ \E i \in 1..Len(gameLog) : gameLog[i].message = <<"escaped">>
    /\ combat.active
    /\ combat.totalEnemyCount = 1
    /\ combat.enemyMaxHPs["skeleton-warrior"] = 20
    /\ combat.enemies[1].stats.hitPoints > 1
    /\ npcs = NewGame.npcs

\* An item is used in a fight
UsesInFight == lastAction'.type = "USE" /\ combat.active

\* The potions the character holds
PotionsHeld ==
    {item.id : item \in {i \in Range(character.inventory.items) :
                           i.usable /\ i.type = "potion"}}

\* The step leaves the fight as it was and adds one entry to the log, not
\* one of the fight; a potion held is drunk, and no hit point is lost
KeepsTheTurn ==
    /\ combat' = combat
    /\ Len(gameLog') = Len(gameLog) + 1
    /\ SubSeq(gameLog', 1, Len(gameLog)) = gameLog
    /\ gameLog'[Len(gameLog')].type # "combat"
    /\ character'.hitPoints.current >= character.hitPoints.current
    /\ lastAction'.itemId \in PotionsHeld
         => /\ gameLog'[Len(gameLog')].message = <<"you use and recover", lastAction'.itemId>>
            /\ Len(character'.inventory.items) = Len(character.inventory.items) - 1

\* C36: USE is accepted in a fight and does not take the turn of the player:
\* after it the enemies, the turn order, the turn index and the round are
\* what they were, and no enemy has attacked.
C36_UseKeepsTheTurn ==
    [][UsesInFight => KeepsTheTurn]_vars

\* In the fight with the skeleton warrior the wizard has drunk the potion:
\* healed, and the turn still the wizard's
C36_Witness ==
    /\ calls = 1
    /\ lastAction = [type |-> "USE", itemId |-> "wizard-potion"]
    /\ combat = DuelGame.combat
    /\ character.hitPoints.current > DuelGame.character.hitPoints.current
    /\ ~\E i \in 1..Len(character.inventory.items) :
          character.inventory.items[i].id = "wizard-potion"

----------------------------------------------------------------------------
(* Claims about the end of a fight                                         *)

\* The attacks of the enemy among the log entries of the last call
TurnsOf(id) ==
    Cardinality({i \in 1..Len(gameLog) :
                   /\ gameLog[i].message[1] = "enemy"
                   /\ gameLog[i].message[2] = id})

\* The enemy turns of a call are no more than one pass over the turn order
OnePass == \A id \in EnemyArgs : TurnsOf(id) <= 1

\* In a fight a call can be made, and one in which a blow of the enemy hits
CanBeHit ==
    combat.active =>
      \E next \in Outcomes(GameState, [type |-> "DEFEND"]) :
        next.character.hitPoints.current < character.hitPoints.current

\* C37: a fight ends: the enemy turns of one call of processAction end after
\* at most one pass over the turn order, and with fair dice a fight in which
\* the player goes on with ATTACK, DEFEND and FLEE is at last over, won, lost
\* or fled.
C37_FightEnds ==
    /\ [](OnePass /\ CanBeHit)
    /\ combat.active ~> ~combat.active

\* The character stood on guard, the skeleton warrior struck, and the fight
\* is over: the character has fallen
C37_Witness ==
    /\ ~combat.active
    /\ character.hitPoints.current = 0
    /\ gameLog[Len(gameLog)].message = <<"has fallen">>
    /\ lastAction.type = "DEFEND"

----------------------------------------------------------------------------
(* Claims about the places of the world and the conversations              *)

\* The state initializeGame returns: in the village square, which alone is
\* visited, no fight, no conversation, two log entries
FreshGame ==
    /\ currentLocationId = "village-square"
    /\ \A id \in DOMAIN locations : locations[id].visited <=> id = "village-square"
    /\ ~combat.active
    /\ combat = InactiveCombat
    /\ activeDialogue = Null
    /\ Len(gameLog) = 2

\* The current location is one of the locations of the state, and visited
Located ==
    /\ currentLocationId \in DOMAIN locations
    /\ locations[currentLocationId].visited

\* Every connection of every location names a location of the state
ConnectionsLead ==
    \A id \in DOMAIN locations :
      \A direction \in DOMAIN locations[id].connections :
        locations[id].connections[direction] \in DOMAIN locations

\* No MOVE has ended with 'That path leads nowhere'
NoPathLeadsNowhere ==
    \A i \in 1..Len(gameLog) : gameLog[i].message # <<"leads nowhere">>

\* A location visited stays visited
VisitedStays ==
    /\ DOMAIN locations' = DOMAIN locations
    /\ \A id \in DOMAIN locations : locations[id].visited => locations'[id].visited

TalksToOneHere ==
    /\ activeDialogue.npcId \in DOMAIN npcs
    /\ ~isHostile(npcs[activeDialogue.npcId])
    /\ activeDialogue.npcId \in Range(locations[currentLocationId].npcs)

\* The node of the conversation is a node of the NPC that has options
OnNodeWithOptions ==
    LET node == getDialogueNode(npcs[activeDialogue.npcId], activeDialogue.currentNodeId)
    IN  /\ node # Null
        /\ Len(node.options) > 0

\* TALK names an NPC that is unknown, hostile or not at the current location
TalksToNoOneHere ==
    /\ lastAction'.type = "TALK"
    /\ \/ lastAction'.npcId \notin DOMAIN npcs
       \/ isHostile(npcs[lastAction'.npcId])
       \/ lastAction'.npcId \notin Range(locations[currentLocationId].npcs)

\* C39: in every state with a conversation open, its NPC is a non-hostile
\* NPC listed at the current location and its node is a node of that NPC
\* with at least one option; TALK to an NPC that is hostile, unknown or not
\* at the current location opens no conversation.
C39_ConversationsAreSound ==
    /\ [](activeDialogue # Null => TalksToOneHere /\ OnNodeWithOptions)
    /\ [][TalksToNoOneHere => activeDialogue' = activeDialogue]_vars

\* From the trial node of the village guard the second option has led back
\* to the greeting, which has options: the conversation goes on there
C39_Witness ==
    /\ calls = 1
    /\ lastAction = [type |-> "DIALOGUE_SELECT", optionIndex |-> 1]
    /\ activeDialogue # Null
    /\ activeDialogue.npcId = "village-guard"
    /\ activeDialogue.currentNodeId = "greeting"
    /\ gameLog[Len(gameLog)].message = <<"options">>
    /\ gameLog[Len(gameLog) - 2].message = <<"you say", "1">>

----------------------------------------------------------------------------
(* Claims about buying and selling                                         *)

\* The two lists hold the same items, each as many times
SameItems(a, b) ==
    /\ Len(a) = Len(b)
    /\ \A item \in Range(a) \cup Range(b) :
         Cardinality({i \in 1..Len(a) : a[i] = item})
           = Cardinality({i \in 1..Len(b) : b[i] = item})

\* The two calls of the game were the BUY of an item from the shopkeeper and
\* the SELL of it to the shopkeeper, and both succeeded
TradedBack ==
    /\ calls = 2
    /\ lastAction.type = "SELL"
    /\ Len(gameLog) >= 2
    /\ gameLog[Len(gameLog) - 1].message = <<"you buy", lastAction.itemId>>
    /\ gameLog[Len(gameLog)].message = <<"you sell", lastAction.itemId>>

\* The game before the BUY: the one whose log the two calls have added to
BeforeTheBuy ==
    CHOOSE s \in {NewGame, KeyGame, AmuletGame} :
      s.gameLog = SubSeq(gameLog, 1, Len(gameLog) - 2)

\* The items held and the stock of the shop are what they were, and there
\* is less gold
RestoresItems ==
    /\ SameItems(character.inventory.items, BeforeTheBuy.character.inventory.items)
    /\ SameItems(npcs["shopkeeper"].shop.items, BeforeTheBuy.npcs["shopkeeper"].shop.items)
    /\ character.gold < BeforeTheBuy.character.gold

RestoresWeight ==
    character.inventory.currentWeight = BeforeTheBuy.character.inventory.currentWeight

\* The current weight is what it was to the tenth of a pound
RestoresWeightInTenths ==
    Tenths(character.inventory.currentWeight)
      = Tenths(BeforeTheBuy.character.inventory.currentWeight)

\* C40: for every item of the shopkeeper (buyMultiplier 1.5, sellMultiplier
\* 0.5; every value is 1 at least), a BUY that succeeds, followed at once by
\* the SELL of the item to the shopkeeper, brings the items held, the
\* current weight and the stock of the shop (as multisets) back to what they
\* were before the BUY, and leaves less gold than before.
C40_BuyAndSellRestore ==
    TradedBack => RestoresItems /\ RestoresWeight

\* The same with the weight brought back to the tenth of a pound
BuyAndSellRestoreInTenths ==
    TradedBack => RestoresItems /\ RestoresWeightInTenths

\* With the magic amulet of 0.1 pounds the character bought the rope of 5
\* pounds and sold it again: the current weight is not what it was
RopeTradedBack ==
    /\ TradedBack
    /\ lastAction.itemId = "shop-rope"
    /\ BeforeTheBuy = AmuletGame
    /\ RestoresItems
    /\ character.inventory.currentWeight > AmuletGame.character.inventory.currentWeight

\* With the ancient key of 0.2 pounds the same trade brings the weight back
RopeTradedBackWithKey ==
    /\ TradedBack
    /\ lastAction.itemId = "shop-rope"
    /\ BeforeTheBuy = KeyGame
    /\ RestoresItems
    /\ RestoresWeight

====
